---- MODULE Spec2Model ----
(***************************************************************************)
(* Wallet-analyzer analytics core: funding aggregation, transaction        *)
(* clustering, path significance, entity risk scoring and anomaly rules,   *)
(* with the result caches in localStorage, the searches of the Index      *)
(* page (cancellation, acquisition loop), the RequestQueue of apiUtils.ts, *)
(* fetchWithRetry of the analyze-wallet function and the signature         *)
(* pagination of getTransactions.                                          *)
(*                                                                         *)
(* Amounts are integers in thousandths of a SOL (1 SOL = 1000), block      *)
(* times are unix seconds.  A missing optional field of a transfer is      *)
(* Undefined (amount), Null (blockTime) or NoAddr (sender, receiver,       *)
(* programId).                                                             *)
(***************************************************************************)
EXTENDS Integers, Sequences, FiniteSets, TLC

VARIABLES
    walletAddress,    \* the focal address of the analysis
    transactions,     \* the transfer list the analysed wallet's history yields
    fundingAnalysis,  \* result of getFundingAnalytics        (heliusApi.ts)
    analysis,         \* result of analyzeFundingHistory      (fundingAnalysis.ts)
    clusters,         \* result of detectTransactionClusters  (heliusApi.ts)
    results,          \* result of clusterTransactions        (entityUtils)
    transactionGraph, \* buildTransactionGraph: the graph built so far
    paths,            \* result of analyzeTransactionPaths    (entityLabeling.ts)
    entityAnalysis,   \* result of analyzeEntity              (entityAnalysis.ts)
    txRiskScores,     \* riskScore of every enriched transaction
    metrics,          \* detectAnomalies: running TransactionMetrics[]
    anomalies,        \* detectAnomalies: anomalies pushed so far
    anomalyScore,     \* result of calculateAnomalyScore
    pageState,        \* Index page: useState transactions, anomalies,
                      \* abortController
    isCancelledRef,   \* Index page: isCancelledRef.current
    aborted,          \* the controllers whose signal.aborted is true
    runs,             \* Index page: the searches started, each at its await
    cancelledRuns,    \* history: the runs of fetchTransactionHistory under
                      \* way that were so when handleCancelSearch was invoked
    localStorage,     \* the stored transactions, paths and funding analyses
    writes,           \* history: the entries written to a cache of results
    heliusRequestQueue, \* apiUtils.ts: the fields of the RequestQueue, the
                      \* processQueue calls at an await and the timers set
    promises,         \* apiUtils.ts: the promise enqueue returned per request
    fetchRun,         \* analyze-wallet: the locals of fetchWithRetry
    pagination,       \* getTransactions: the locals of the signature loop
    pc                \* "idle", "loop" (inside detectAnomalies), "build"
                      \* (inside buildTransactionGraph), "search" (the
                      \* Index page), "cache" (getTransactionDetails over a
                      \* ledger), "entity" (before analyzeEntity), "queue"
                      \* (the RequestQueue), "fetch" (inside fetchWithRetry),
                      \* "signatures" (inside getTransactions) or "done"

analyticsVars ==
    <<walletAddress, transactions, fundingAnalysis, analysis, clusters, results,
      transactionGraph, paths, entityAnalysis, txRiskScores, metrics, anomalies,
      anomalyScore>>

searchVars == <<pageState, isCancelledRef, aborted, runs, cancelledRuns>>

cacheVars == <<localStorage, writes>>

queueVars == <<heliusRequestQueue, promises>>

utilVars == <<queueVars, fetchRun, pagination>>

vars == <<analyticsVars, searchVars, cacheVars, utilVars, pc>>

\* ------------------------------------------------------------------------
\* Values of absent fields and of results not produced yet
\* ------------------------------------------------------------------------
Undefined == 0 - 1          \* parsedInfo.amount === undefined
Null == 0 - 1               \* blockTime === null
NoAddr == "undefined"       \* sender / receiver / programId absent
NotCalled == [called |-> FALSE]

\* blockTime || 0
TimeOrZero(tx) == IF tx.blockTime = Null THEN 0 ELSE tx.blockTime

\* amount || 0
AmountOrZero(tx) == IF tx.amount = Undefined THEN 0 ELSE tx.amount

Min(a, b) == IF a < b THEN a ELSE b
Max(a, b) == IF a > b THEN a ELSE b

RECURSIVE SumSeq(_)
SumSeq(s) == IF s = <<>> THEN 0 ELSE Head(s) + SumSeq(Tail(s))

Range(s) == {s[i] : i \in DOMAIN s}

\* Array.prototype.sort is stable: insertion of x behind every element whose
\* key is not greater than its own.
RECURSIVE InsertByTime(_, _)
InsertByTime(x, s) ==
    IF s = <<>> THEN <<x>>
    ELSE IF TimeOrZero(Head(s)) <= TimeOrZero(x)
         THEN <<Head(s)>> \o InsertByTime(x, Tail(s))
         ELSE <<x>> \o s

\* The list left in the order of acquisition.
AcquisitionOrder(s) == s

RECURSIVE SortByBlockTime(_)
SortByBlockTime(s) ==
    IF s = <<>> THEN <<>>
    ELSE InsertByTime(s[Len(s)], SortByBlockTime(SubSeq(s, 1, Len(s) - 1)))

\* sort((a, b) => b.amount - a.amount), stable
RECURSIVE InsertByAmountDesc(_, _)
InsertByAmountDesc(x, s) ==
    IF s = <<>> THEN <<x>>
    ELSE IF Head(s).amount >= x.amount
         THEN <<Head(s)>> \o InsertByAmountDesc(x, Tail(s))
         ELSE <<x>> \o s

RECURSIVE SortByAmountDesc(_)
SortByAmountDesc(s) ==
    IF s = <<>> THEN <<>>
    ELSE InsertByAmountDesc(s[Len(s)], SortByAmountDesc(SubSeq(s, 1, Len(s) - 1)))

\* slice(0, n)
Slice(s, n) == SubSeq(s, 1, Min(n, Len(s)))

\* The signature of a transfer is its position in the acquired list.
WithSignatures(s) ==
    [i \in DOMAIN s |-> [signature |-> i] @@ s[i]]

\* ------------------------------------------------------------------------
\* Funding aggregator
\* ------------------------------------------------------------------------
MaxFundingTx == 3
TopSourceLimit == 5

Focal == "F"

\* A transfer record as the enrichment step leaves it (parsedInfo flattened).
Transfer(blockTime, sender, receiver, amount, programId, tokenTransfers, err) ==
    [blockTime |-> blockTime, sender |-> sender, receiver |-> receiver,
     amount |-> amount, programId |-> programId,
     tokenTransfers |-> tokenTransfers, err |-> err]

SystemProgram == "11111111111111111111111111111111"
SerumDex == "9xQeWvG816bUx9EPjHmaT23yvVM2ZWbrrpZb9PusVFin"

FundingPool ==
    { Transfer(10,   "A",    "F", 100,       SystemProgram, <<>>, FALSE),
      Transfer(20,   "F",    "B", 30,        SystemProgram, <<>>, FALSE),
      Transfer(5,    "B",    "F", 40,        SystemProgram, <<>>, FALSE),
      Transfer(15,   "A",    "B", 7,         SystemProgram, <<>>, FALSE),
      Transfer(Null, "A",    "F", 25,        SystemProgram, <<>>, FALSE),
      Transfer(30,   "F",    "A", Undefined, NoAddr,        <<>>, TRUE),
      Transfer(12,   NoAddr, "F", 9,         SystemProgram, <<>>, FALSE),
      Transfer(25,   "F",    "F", 3,         SystemProgram, <<>>, FALSE),
      Transfer(20,   "B",    "F", 0,         SystemProgram, <<>>, FALSE),
      Transfer(40,   "A",    "F", 10,        SerumDex,      <<>>, FALSE) }

ListsOver(pool, n) ==
    UNION { {WithSignatures(s) : s \in [1..k -> pool]} : k \in 0..n }

FundingLists == ListsOver(FundingPool, MaxFundingTx)

\* amount !== undefined && !isNaN(amount) && amount > 0
ValidAmount(tx) == tx.amount # Undefined /\ tx.amount > 0

\* Position of the funding source of an address in the sources record
\* (insertion order of its keys), 0 when there is none.
SourceIndex(sources, addr) ==
    IF \E i \in DOMAIN sources : sources[i].address = addr
    THEN CHOOSE i \in DOMAIN sources : sources[i].address = addr
    ELSE 0

\* Add or update the funding source of an inbound transfer.
UpdateSources(sources, sender, amount, timestamp, signature) ==
    LET i == SourceIndex(sources, sender) IN
    IF i = 0
    THEN Append(sources, [address |-> sender, amount |-> amount,
                          timestamp |-> timestamp,
                          transactionSignature |-> signature,
                          confidence |-> "medium"])
    ELSE [sources EXCEPT
            ![i].amount = @ + amount,
            ![i].timestamp = IF timestamp < @ THEN timestamp ELSE @,
            ![i].transactionSignature =
                IF timestamp < sources[i].timestamp THEN signature ELSE @]

\* The map() callback of getFundingAnalytics over the sorted, filtered list:
\* acc = [balance, sources, timeline].
RECURSIVE HeliusTimeline(_, _, _)
HeliusTimeline(wallet, txs, acc) ==
    IF txs = <<>> THEN acc
    ELSE
      LET tx == Head(txs)
          isDeposit == tx.receiver = wallet
          counterparty == IF isDeposit THEN tx.sender ELSE tx.receiver
          amount == AmountOrZero(tx)
          balance == IF isDeposit THEN acc.balance + amount
                     ELSE acc.balance - amount
          sources == IF isDeposit /\ tx.sender # NoAddr
                     THEN UpdateSources(acc.sources, tx.sender, amount,
                                        TimeOrZero(tx), tx.signature)
                     ELSE acc.sources
          entry == [timestamp |-> TimeOrZero(tx), amount |-> amount,
                    balance |-> balance, source |-> counterparty,
                    isDeposit |-> isDeposit,
                    transactionSignature |-> tx.signature]
      IN HeliusTimeline(wallet, Tail(txs),
                        [balance |-> balance, sources |-> sources,
                         timeline |-> Append(acc.timeline, entry)])

\* The thresholds a third and a fifth in place of 0.5 and 0.2.
ConfidenceAboveThird(source, totalInflow) ==
    LET denom == IF totalInflow = 0 THEN 1 ELSE totalInflow IN
    IF 3 * source.amount > denom THEN "high"
    ELSE IF 5 * source.amount > denom THEN "medium"
    ELSE "low"

\* relativeAmount = source.amount / (totalInflow || 1), compared with 0.5 and 0.2
HeliusConfidence(source, totalInflow) ==
    LET denom == IF totalInflow = 0 THEN 1 ELSE totalInflow IN
    IF 2 * source.amount > denom THEN "high"
    ELSE IF 5 * source.amount > denom THEN "medium"
    ELSE "low"

getFundingAnalytics(wallet, txs) ==
    IF Len(txs) = 0 THEN [called |-> TRUE, isNull |-> TRUE]
    ELSE
      LET inflows == SelectSeq(txs, LAMBDA tx : tx.receiver = wallet /\ ValidAmount(tx))
          outflows == SelectSeq(txs, LAMBDA tx : tx.sender = wallet /\ ValidAmount(tx))
          totalInflow == SumSeq([i \in DOMAIN inflows |-> inflows[i].amount])
          totalOutflow == SumSeq([i \in DOMAIN outflows |-> outflows[i].amount])
          sorted == SortByBlockTime(txs)
          run == HeliusTimeline(wallet, SelectSeq(sorted, ValidAmount),
                                [balance |-> 0, sources |-> <<>>, timeline |-> <<>>])
          top == Slice(SortByAmountDesc(run.sources), TopSourceLimit)
      IN [called |-> TRUE, isNull |-> FALSE,
          totalInflow |-> totalInflow,
          totalOutflow |-> totalOutflow,
          netBalance |-> totalInflow - totalOutflow,
          timelineData |-> run.timeline,
          topSources |-> [i \in DOMAIN top |->
                            [top[i] EXCEPT !.confidence =
                                HeliusConfidence(top[i], totalInflow)]],
          hasFirstDeposit |-> Len(inflows) > 0,
          firstDeposit |-> IF Len(inflows) > 0
                           THEN [timestamp |-> TimeOrZero(inflows[1]),
                                 source |-> inflows[1].sender,
                                 amount |-> inflows[1].amount,
                                 transactionSignature |-> inflows[1].signature]
                           ELSE [timestamp |-> 0, source |-> NoAddr, amount |-> 0,
                                 transactionSignature |-> 0]]

\* The for-loop of analyzeFundingHistory over the sorted list:
\* acc = [balance, totalInflow, totalOutflow, hasFirstDeposit, firstDeposit,
\*        sources, timeline].
RECURSIVE HistoryLoop(_, _, _)
HistoryLoop(wallet, txs, acc) ==
    IF txs = <<>> THEN acc
    ELSE
      LET tx == Head(txs) IN
      IF tx.sender = NoAddr \/ tx.receiver = NoAddr \/ tx.amount = Undefined
      THEN HistoryLoop(wallet, Tail(txs), acc)
      ELSE
        LET isInbound == tx.receiver = wallet
            counterparty == IF isInbound THEN tx.sender ELSE tx.receiver
            timestamp == TimeOrZero(tx)
            balance == IF isInbound THEN acc.balance + tx.amount
                       ELSE acc.balance - tx.amount
            entry == [timestamp |-> timestamp, amount |-> tx.amount,
                      balance |-> balance, source |-> counterparty,
                      isDeposit |-> isInbound,
                      transactionSignature |-> tx.signature]
        IN HistoryLoop(wallet, Tail(txs),
             [balance |-> balance,
              totalInflow |-> IF isInbound THEN acc.totalInflow + tx.amount
                              ELSE acc.totalInflow,
              totalOutflow |-> IF isInbound THEN acc.totalOutflow
                               ELSE acc.totalOutflow + tx.amount,
              hasFirstDeposit |-> acc.hasFirstDeposit \/ isInbound,
              firstDeposit |-> IF isInbound /\ ~acc.hasFirstDeposit
                               THEN [timestamp |-> timestamp, source |-> tx.sender,
                                     amount |-> tx.amount,
                                     transactionSignature |-> tx.signature]
                               ELSE acc.firstDeposit,
              sources |-> IF isInbound
                          THEN UpdateSources(acc.sources, tx.sender, tx.amount,
                                             timestamp, tx.signature)
                          ELSE acc.sources,
              timeline |-> Append(acc.timeline, entry)])

\* txCount > 3 || amount > totalInflow * 0.5, txCount > 1 || amount > totalInflow * 0.2
HistoryConfidence(source, txCount, totalInflow) ==
    IF txCount > 3 \/ 2 * source.amount > totalInflow THEN "high"
    ELSE IF txCount > 1 \/ 5 * source.amount > totalInflow THEN "medium"
    ELSE "low"

analyzeFundingHistory(wallet, txs) ==
    LET sorted == SortByBlockTime(txs)
        run == HistoryLoop(wallet, sorted,
                 [balance |-> 0, totalInflow |-> 0, totalOutflow |-> 0,
                  hasFirstDeposit |-> FALSE,
                  firstDeposit |-> [timestamp |-> 0, source |-> NoAddr, amount |-> 0,
                                    transactionSignature |-> 0],
                  sources |-> <<>>, timeline |-> <<>>])
        top == Slice(SortByAmountDesc(run.sources), TopSourceLimit)
        TxCount(addr) == Cardinality({i \in DOMAIN sorted :
                             sorted[i].sender = addr /\ sorted[i].receiver = wallet})
    IN [called |-> TRUE, isNull |-> FALSE,
        totalInflow |-> run.totalInflow,
        totalOutflow |-> run.totalOutflow,
        netBalance |-> run.totalInflow - run.totalOutflow,
        timelineData |-> run.timeline,
        topSources |-> [i \in DOMAIN top |->
                          [top[i] EXCEPT !.confidence =
                              HistoryConfidence(top[i], TxCount(top[i].address),
                                                run.totalInflow)]],
        hasFirstDeposit |-> run.hasFirstDeposit,
        firstDeposit |-> run.firstDeposit]

\* ------------------------------------------------------------------------
\* Clustering engine
\* ------------------------------------------------------------------------
MaxClusterTx == 4
MinClusterSize == 3
PairClusterSize == 2

ClusterPool ==
    { Transfer(1000,   "F", "A", 5000,      SystemProgram, <<>>, FALSE),
      Transfer(1030,   "F", "A", 5000,      SystemProgram, <<>>, FALSE),
      Transfer(1500,   "A", "F", 5004,      SystemProgram, <<>>, FALSE),
      Transfer(2050,   "B", "F", 60000,     SystemProgram, <<>>, FALSE),
      Transfer(100000, "F", "B", 60000,     SystemProgram, <<>>, FALSE),
      Transfer(Null,   "F", "A", Undefined, NoAddr,        <<>>, FALSE) }

ClusterLists == ListsOver(ClusterPool, MaxClusterTx)

\* Map<key, tx[]> in insertion order of the keys: push tx to the group of key.
PushToGroup(groups, key, tx) ==
    IF \E i \in DOMAIN groups : groups[i].key = key
    THEN LET i == CHOOSE j \in DOMAIN groups : groups[j].key = key
         IN [groups EXCEPT ![i].txs = Append(@, tx)]
    ELSE Append(groups, [key |-> key, txs |-> <<tx>>])

\* forEach over the transfers: Skip(tx) leaves the map alone.
RECURSIVE GroupBy(_, _, _, _)
GroupBy(txs, Key(_), Skip(_), groups) ==
    IF txs = <<>> THEN groups
    ELSE GroupBy(Tail(txs), Key, Skip,
                 IF Skip(Head(txs)) THEN groups
                 ELSE PushToGroup(groups, Key(Head(txs)), Head(txs)))

\* sort((a, b) => b.riskScore - a.riskScore), stable
RECURSIVE InsertByRiskDesc(_, _)
InsertByRiskDesc(x, s) ==
    IF s = <<>> THEN <<x>>
    ELSE IF Head(s).riskScore >= x.riskScore
         THEN <<Head(s)>> \o InsertByRiskDesc(x, Tail(s))
         ELSE <<x>> \o s

RECURSIVE SortByRiskDesc(_)
SortByRiskDesc(s) ==
    IF s = <<>> THEN <<>>
    ELSE InsertByRiskDesc(s[Len(s)], SortByRiskDesc(SubSeq(s, 1, Len(s) - 1)))

\* reduce((sum, tx) => sum + (tx.parsedInfo?.amount || 0), 0)
TotalVolume(txs) == SumSeq([i \in DOMAIN txs |-> AmountOrZero(txs[i])])

\* Senders and receivers of the transfers other than the wallet argument.
EntitiesOf(txs, walletArg) ==
    {txs[i].sender : i \in {j \in DOMAIN txs :
        txs[j].sender # walletArg /\ txs[j].sender # NoAddr}}
    \cup {txs[i].receiver : i \in {j \in DOMAIN txs :
        txs[j].receiver # walletArg /\ txs[j].receiver # NoAddr}}

\* Math.round(amount * 100) / 100, in hundredths of a SOL
RoundToCents(amount) == (amount + 5) \div 10

\* Math.round(amount * 10) / 10, in tenths of a SOL
RoundToTenths(amount) == (amount + 50) \div 100

AddressCluster(group) ==
    LET txs == group.txs
        sameAmount == \E i \in DOMAIN txs :
            Cardinality({j \in DOMAIN txs :
                AmountOrZero(txs[j]) = AmountOrZero(txs[i])}) >= 3
    IN [type |-> "address-based", id |-> group.key,
        transactions |-> txs, size |-> Len(txs),
        entities |-> {group.key},
        riskScore |-> 30 + (IF sameAmount THEN 20 ELSE 0)
                         + (IF TotalVolume(txs) > 100 * 1000 THEN 15 ELSE 0)]

TimeCluster(txs, clusterStartTime, walletArg) ==
    [type |-> "time-based", id |-> clusterStartTime,
     transactions |-> txs, size |-> Len(txs),
     entities |-> EntitiesOf(txs, walletArg),
     riskScore |-> 40 + Min(Len(txs) * 2, 30)]

\* The forEach of the time-based pass and the check of the last cluster:
\* acc = [currentCluster, clusterStartTime, out].
RECURSIVE TimeWindows(_, _, _)
TimeWindows(sortedTxs, walletArg, acc) ==
    IF sortedTxs = <<>>
    THEN IF Len(acc.currentCluster) >= MinClusterSize
         THEN Append(acc.out, TimeCluster(acc.currentCluster,
                                          acc.clusterStartTime, walletArg))
         ELSE acc.out
    ELSE
      LET tx == Head(sortedTxs)
          txTime == TimeOrZero(tx) * 1000
          timeWindowMs == 10 * 60 * 1000
      IN IF Len(acc.currentCluster) = 0
         THEN TimeWindows(Tail(sortedTxs), walletArg,
                [acc EXCEPT !.currentCluster = <<tx>>, !.clusterStartTime = txTime])
         ELSE IF txTime - acc.clusterStartTime <= timeWindowMs
         THEN TimeWindows(Tail(sortedTxs), walletArg,
                [acc EXCEPT !.currentCluster = Append(@, tx)])
         ELSE TimeWindows(Tail(sortedTxs), walletArg,
                [currentCluster |-> <<tx>>, clusterStartTime |-> txTime,
                 out |-> IF Len(acc.currentCluster) >= MinClusterSize
                         THEN Append(acc.out, TimeCluster(acc.currentCluster,
                                         acc.clusterStartTime, walletArg))
                         ELSE acc.out])

SeqMin(s) == CHOOSE x \in Range(s) : \A y \in Range(s) : x <= y
SeqMax(s) == CHOOSE x \in Range(s) : \A y \in Range(s) : x >= y

AmountCluster(group, walletArg) ==
    LET txs == group.txs
        timestamps == [i \in DOMAIN txs |-> TimeOrZero(txs[i])]
        span == SeqMax(timestamps) - SeqMin(timestamps)
    IN [type |-> "amount-based", id |-> group.key,
        transactions |-> txs, size |-> Len(txs),
        entities |-> EntitiesOf(txs, walletArg),
        riskScore |-> 35 + (IF span < 24 * 3600 THEN 15 ELSE 0)
                         + (IF span < 3600 THEN 25 ELSE 0)
                         + (IF Len(txs) > 5 THEN 10 ELSE 0)]

\* Clusters of the groups that reach the minimum size, in map order.
ClustersOfGroups(groups, minSize, Make(_)) ==
    LET big == SelectSeq(groups, LAMBDA g : Len(g.txs) >= minSize)
    IN [i \in DOMAIN big |-> Make(big[i])]

\* walletArg is the argument as given: the address string, or the array
\* itself (ArrayArg), which equals no address.
ArrayArg == "[object Array]"

detectTransactionClusters(walletArg, txs) ==
    IF Len(txs) < 3 THEN <<>>
    ELSE
      LET actualWalletAddress ==
              IF walletArg # ArrayArg THEN walletArg
              ELSE IF txs[1].sender # NoAddr THEN txs[1].sender
              ELSE IF txs[1].receiver # NoAddr THEN txs[1].receiver
              ELSE NoAddr
          Counterparty(tx) == IF tx.sender = actualWalletAddress
                              THEN tx.receiver ELSE tx.sender
          counterpartiesMap ==
              GroupBy(txs, Counterparty,
                      LAMBDA tx : Counterparty(tx) = NoAddr, <<>>)
          addressClusters ==
              ClustersOfGroups(counterpartiesMap, MinClusterSize, AddressCluster)
          timeClusters ==
              TimeWindows(SortByBlockTime(txs), walletArg,
                          [currentCluster |-> <<>>, clusterStartTime |-> 0,
                           out |-> <<>>])
          amountGroups ==
              GroupBy(txs, LAMBDA tx : RoundToCents(AmountOrZero(tx)),
                      LAMBDA tx : ~(AmountOrZero(tx) > 0), <<>>)
          amountClusters ==
              ClustersOfGroups(amountGroups, MinClusterSize,
                               LAMBDA g : AmountCluster(g, walletArg))
      IN SortByRiskDesc(addressClusters \o timeClusters \o amountClusters)

\* --- clusterTransactions: its clusters have no size field, and riskScore
\* is kept in tenths of a point (amount * 2 is a multiple of 0.2).
\* Math.max(0, ...) alone
FloorRisk(tenths) == Max(0, tenths)

\* Math.min(100, Math.max(0, ...))
ClampRisk(tenths) == Min(100 * 10, Max(0, tenths))

AllEntitiesOf(txs) ==
    {txs[i].sender : i \in {j \in DOMAIN txs : txs[j].sender # NoAddr}}
    \cup {txs[i].receiver : i \in {j \in DOMAIN txs : txs[j].receiver # NoAddr}}

PairAddressCluster(group) ==
    [type |-> "address-based", id |-> group.key,
     transactions |-> group.txs, entities |-> AllEntitiesOf(group.txs),
     riskScore |-> ClampRisk((30 + Len(group.txs) * 5) * 10)]

RapidCluster(txs) ==
    [type |-> "time-based", id |-> 0,
     transactions |-> txs, entities |-> AllEntitiesOf(txs),
     riskScore |-> ClampRisk((20 + Len(txs) * 10) * 10)]

PairAmountCluster(group) ==
    [type |-> "amount-based", id |-> group.key,
     transactions |-> group.txs, entities |-> AllEntitiesOf(group.txs),
     riskScore |-> ClampRisk((15 + Len(group.txs) * 10) * 10 + group.key * 2)]

\* The time-based loop: acc = [currentGroup, previousTime, timeGroups].
RECURSIVE TimeGroups(_, _)
TimeGroups(sortedByTime, acc) ==
    IF sortedByTime = <<>>
    THEN IF Len(acc.currentGroup) >= MinClusterSize
         THEN Append(acc.timeGroups, acc.currentGroup)
         ELSE acc.timeGroups
    ELSE
      LET tx == Head(sortedByTime) IN
      IF tx.blockTime = Null \/ tx.blockTime = 0
      THEN TimeGroups(Tail(sortedByTime), acc)
      ELSE IF acc.previousTime = Null
      THEN TimeGroups(Tail(sortedByTime),
             [acc EXCEPT !.currentGroup = <<tx>>, !.previousTime = tx.blockTime])
      ELSE IF tx.blockTime - acc.previousTime < 600
      THEN TimeGroups(Tail(sortedByTime),
             [acc EXCEPT !.currentGroup = Append(@, tx),
                         !.previousTime = tx.blockTime])
      ELSE TimeGroups(Tail(sortedByTime),
             [currentGroup |-> <<tx>>, previousTime |-> tx.blockTime,
              timeGroups |-> IF Len(acc.currentGroup) >= MinClusterSize
                             THEN Append(acc.timeGroups, acc.currentGroup)
                             ELSE acc.timeGroups])

clusterTransactions(txs) ==
    LET Counterparty(tx) ==
            IF tx.sender # tx.receiver
            THEN (IF tx.sender # NoAddr THEN tx.sender ELSE tx.receiver)
            ELSE NoAddr
        addressGroups ==
            GroupBy(txs, Counterparty, LAMBDA tx : Counterparty(tx) = NoAddr, <<>>)
        addressClusters ==
            ClustersOfGroups(addressGroups, PairClusterSize, PairAddressCluster)
        timeGroups ==
            TimeGroups(SortByBlockTime(txs),
                       [currentGroup |-> <<>>, previousTime |-> Null,
                        timeGroups |-> <<>>])
        timeClusters == [i \in DOMAIN timeGroups |-> RapidCluster(timeGroups[i])]
        amountGroups ==
            GroupBy(txs, LAMBDA tx : RoundToTenths(tx.amount),
                    LAMBDA tx : tx.amount = Undefined \/ tx.amount = 0, <<>>)
        amountClusters ==
            ClustersOfGroups(amountGroups, PairClusterSize, PairAmountCluster)
    IN SortByRiskDesc(addressClusters \o timeClusters \o amountClusters)

\* ------------------------------------------------------------------------
\* Graph builder and path significance analyzer.  Significance is kept in
\* twentieths (0.05): 0.1 is 2, 0.2 is 4, 0.3 is 6 and 1 is 20.
\* ------------------------------------------------------------------------
MaxPathTx == 4
maxDepth == 3

PathPool ==
    { Transfer(100, "A",    "B", 1000,      SystemProgram, <<>>, FALSE),
      Transfer(200, "B",    "C", 2000,      NoAddr, <<[mint |-> "M", amount |-> 1]>>, FALSE),
      Transfer(300, "C",    "D", 1000,      SystemProgram, <<>>, FALSE),
      Transfer(400, "D",    "E", Undefined, NoAddr,        <<>>, FALSE),
      Transfer(500, "B",    "A", 1000,      "D",           <<>>, FALSE),
      Transfer(600, NoAddr, "A", 1000,      NoAddr,        <<>>, FALSE) }

PathLists == ListsOver(PathPool, MaxPathTx)

\* map.get(key) || 0
GetOrZero(map, key) == IF key \in DOMAIN map THEN map[key] ELSE 0

EmptyGraph == [nodes |-> <<>>, edges |-> <<>>]

NodeIndex(graph, address) ==
    IF \E i \in DOMAIN graph.nodes : graph.nodes[i].address = address
    THEN CHOOSE i \in DOMAIN graph.nodes : graph.nodes[i].address = address
    ELSE 0

HasNode(graph, address) == NodeIndex(graph, address) # 0
NodeOf(graph, address) == graph.nodes[NodeIndex(graph, address)]

\* graph.nodes.set without the has-test: a later insertion replaces the node
addNodeOverwriting(graph, address, type) ==
    LET node == [address |-> address, type |-> type, transactions |-> {},
                 incoming |-> <<>>, outgoing |-> <<>>]
    IN IF HasNode(graph, address)
       THEN [graph EXCEPT !.nodes[NodeIndex(graph, address)] = node]
       ELSE [graph EXCEPT !.nodes = Append(@, node)]

addNodeToGraph(graph, address, type) ==
    IF ~HasNode(graph, address)
    THEN [graph EXCEPT !.nodes =
            Append(@, [address |-> address, type |-> type, transactions |-> {},
                       incoming |-> <<>>, outgoing |-> <<>>])]
    ELSE graph

addTransactionToNode(graph, address, signature) ==
    IF HasNode(graph, address)
    THEN [graph EXCEPT !.nodes[NodeIndex(graph, address)].transactions =
            @ \cup {signature}]
    ELSE graph

\* addNodeToGraph followed by addTransactionToNode, when the address is present
TouchNode(graph, address, type, signature) ==
    IF address = NoAddr THEN graph
    ELSE addTransactionToNode(addNodeToGraph(graph, address, type),
                              address, signature)

EdgeIndex(graph, from) ==
    IF \E i \in DOMAIN graph.edges : graph.edges[i].from = from
    THEN CHOOSE i \in DOMAIN graph.edges : graph.edges[i].from = from
    ELSE 0

\* graph.edges.get(from), a Set in insertion order; empty when there is none
EdgesFrom(graph, from) ==
    IF EdgeIndex(graph, from) = 0 THEN <<>>
    ELSE graph.edges[EdgeIndex(graph, from)].to

Increment(map, key) == (key :> (GetOrZero(map, key) + 1)) @@ map

\* Counts raised only when the edge is new to the edge set
addEdgeCountingOnce(graph, from, to) ==
    LET isNew == \A k \in DOMAIN EdgesFrom(graph, from) : EdgesFrom(graph, from)[k] # to
        withKey == IF EdgeIndex(graph, from) = 0
                   THEN [graph EXCEPT !.edges = Append(@, [from |-> from, to |-> <<>>])]
                   ELSE graph
        e == EdgeIndex(withKey, from)
        withEdge == IF isNew THEN [withKey EXCEPT !.edges[e].to = Append(@, to)]
                    ELSE withKey
        f == NodeIndex(withEdge, from)
        t == NodeIndex(withEdge, to)
    IN IF f # 0 /\ t # 0 /\ isNew
       THEN LET counted == [withEdge EXCEPT !.nodes[f].outgoing = Increment(@, to)]
            IN [counted EXCEPT !.nodes[t].incoming = Increment(@, from)]
       ELSE withEdge

addEdgeToGraph(graph, from, to) ==
    LET withKey == IF EdgeIndex(graph, from) = 0
                   THEN [graph EXCEPT !.edges = Append(@, [from |-> from, to |-> <<>>])]
                   ELSE graph
        e == EdgeIndex(withKey, from)
        withEdge == IF \E k \in DOMAIN withKey.edges[e].to : withKey.edges[e].to[k] = to
                    THEN withKey
                    ELSE [withKey EXCEPT !.edges[e].to = Append(@, to)]
        f == NodeIndex(withEdge, from)
        t == NodeIndex(withEdge, to)
    IN IF f # 0 /\ t # 0
       THEN LET counted == [withEdge EXCEPT !.nodes[f].outgoing = Increment(@, to)]
            IN [counted EXCEPT !.nodes[t].incoming = Increment(@, from)]
       ELSE withEdge

RECURSIVE AddTokenNodes(_, _, _)
AddTokenNodes(graph, tokenTransfers, signature) ==
    IF tokenTransfers = <<>> THEN graph
    ELSE AddTokenNodes(TouchNode(graph, Head(tokenTransfers).mint, "token", signature),
                       Tail(tokenTransfers), signature)

\* One iteration of the loop of buildTransactionGraph.
AddTransferToGraph(graph, tx) ==
    LET g1 == TouchNode(graph, tx.sender, "wallet", tx.signature)
        g2 == TouchNode(g1, tx.receiver, "wallet", tx.signature)
        g3 == TouchNode(g2, tx.programId, "program", tx.signature)
        g4 == AddTokenNodes(g3, tx.tokenTransfers, tx.signature)
    IN IF tx.sender # NoAddr /\ tx.receiver # NoAddr
       THEN addEdgeToGraph(g4, tx.sender, tx.receiver)
       ELSE g4

\* for (const tx of transactions): each iteration works on the graph as the
\* iterations before it left it (the first conjunct evaluates that graph).
RECURSIVE BuildFrom(_, _)
BuildFrom(graph, txs) ==
    IF Len(graph.nodes) >= 0 /\ txs = <<>> THEN graph
    ELSE BuildFrom(AddTransferToGraph(graph, Head(txs)), Tail(txs))

buildTransactionGraph(txs) == BuildFrom(EmptyGraph, txs)

getPathTransactions(graph, path) ==
    UNION { NodeOf(graph, path[i]).transactions :
              i \in {j \in DOMAIN path : HasNode(graph, path[j])} }

TypeWeight(type) ==
    IF type = "program" THEN 6 ELSE IF type = "token" THEN 4 ELSE 2

\* The sum of the three parts without Math.min(significance, 1).
UnclampedSignificance(graph, path) ==
    LET volume == Cardinality(getPathTransactions(graph, path)) * 2
        types == SumSeq([i \in DOMAIN path |->
                    IF HasNode(graph, path[i])
                    THEN TypeWeight(NodeOf(graph, path[i]).type) ELSE 0])
        strength == SumSeq([i \in 1..(Len(path) - 1) |->
                    IF HasNode(graph, path[i]) /\ HasNode(graph, path[i + 1])
                    THEN GetOrZero(NodeOf(graph, path[i]).outgoing, path[i + 1])
                         + GetOrZero(NodeOf(graph, path[i + 1]).incoming, path[i])
                    ELSE 0])
    IN volume + types + strength

calculatePathSignificance(graph, path) ==
    LET volume == Cardinality(getPathTransactions(graph, path)) * 2
        types == SumSeq([i \in DOMAIN path |->
                    IF HasNode(graph, path[i])
                    THEN TypeWeight(NodeOf(graph, path[i]).type) ELSE 0])
        strength == SumSeq([i \in 1..(Len(path) - 1) |->
                    IF HasNode(graph, path[i]) /\ HasNode(graph, path[i + 1])
                    THEN GetOrZero(NodeOf(graph, path[i]).outgoing, path[i + 1])
                         + GetOrZero(NodeOf(graph, path[i + 1]).incoming, path[i])
                    ELSE 0])
    IN Min(volume + types + strength, 20)

determinePathType(graph, path) ==
    LET types == {IF HasNode(graph, path[i]) THEN NodeOf(graph, path[i]).type
                  ELSE "unknown" : i \in DOMAIN path}
    IN IF "program" \in types THEN "PROGRAM_INTERACTION"
       ELSE IF "token" \in types THEN "TOKEN_FLOW"
       ELSE IF Len(path) >= 3 THEN "COMPLEX_FLOW"
       ELSE "DIRECT_TRANSFER"

\* dfs(current, path, depth) with the visited set of the branch; returns the
\* paths it pushes, in the order of the pushes.
RECURSIVE dfs(_, _, _, _, _)
RECURSIVE dfsEdges(_, _, _, _, _)

\* dfs without the check path.length > 1
dfsAnyLength(graph, current, path, depth, visited) ==
    IF depth > maxDepth \/ current \in visited THEN <<>>
    ELSE
      LET newPath == Append(path, current)
          significance == calculatePathSignificance(graph, newPath)
          own == IF significance > 2
                 THEN << [addresses |-> newPath,
                          transactions |-> getPathTransactions(graph, newPath),
                          significance |-> significance,
                          type |-> determinePathType(graph, newPath)] >>
                 ELSE <<>>
      IN own \o dfsEdges(graph, EdgesFrom(graph, current), newPath, depth + 1,
                         visited \cup {current})

\* dfs without the check visited.has(current)
dfsRevisiting(graph, current, path, depth, visited) ==
    IF depth > maxDepth THEN <<>>
    ELSE
      LET newPath == Append(path, current)
          significance == calculatePathSignificance(graph, newPath)
          own == IF Len(newPath) > 1 /\ significance > 2
                 THEN << [addresses |-> newPath,
                          transactions |-> getPathTransactions(graph, newPath),
                          significance |-> significance,
                          type |-> determinePathType(graph, newPath)] >>
                 ELSE <<>>
      IN own \o dfsEdges(graph, EdgesFrom(graph, current), newPath, depth + 1,
                         visited \cup {current})

dfs(graph, current, path, depth, visited) ==
    IF depth > maxDepth \/ current \in visited THEN <<>>
    ELSE
      LET newPath == Append(path, current)
          significance == calculatePathSignificance(graph, newPath)
          own == IF Len(newPath) > 1 /\ significance > 2
                 THEN << [addresses |-> newPath,
                          transactions |-> getPathTransactions(graph, newPath),
                          significance |-> significance,
                          type |-> determinePathType(graph, newPath)] >>
                 ELSE <<>>
      IN own \o dfsEdges(graph, EdgesFrom(graph, current), newPath, depth + 1,
                         visited \cup {current})

dfsEdges(graph, edges, path, depth, visited) ==
    IF edges = <<>> THEN <<>>
    ELSE dfs(graph, Head(edges), path, depth, visited)
         \o dfsEdges(graph, Tail(edges), path, depth, visited)

findPathsFromNode(graph, startAddress) == dfs(graph, startAddress, <<>>, 0, {})

\* sort((a, b) => b.significance - a.significance), stable
RECURSIVE InsertBySignificance(_, _)
InsertBySignificance(x, s) ==
    IF s = <<>> THEN <<x>>
    ELSE IF Head(s).significance >= x.significance
         THEN <<Head(s)>> \o InsertBySignificance(x, Tail(s))
         ELSE <<x>> \o s

RECURSIVE SortBySignificance(_)
SortBySignificance(s) ==
    IF s = <<>> THEN <<>>
    ELSE InsertBySignificance(s[Len(s)], SortBySignificance(SubSeq(s, 1, Len(s) - 1)))

\* The loop over graph.nodes without the test node.type === 'wallet'
RECURSIVE PathsFromAllNodes(_, _)
PathsFromAllNodes(graph, nodes) ==
    IF nodes = <<>> THEN <<>>
    ELSE findPathsFromNode(graph, Head(nodes).address)
         \o PathsFromAllNodes(graph, Tail(nodes))

RECURSIVE PathsFromRoots(_, _)
PathsFromRoots(graph, nodes) ==
    IF nodes = <<>> THEN <<>>
    ELSE (IF Head(nodes).type = "wallet"
          THEN findPathsFromNode(graph, Head(nodes).address) ELSE <<>>)
         \o PathsFromRoots(graph, Tail(nodes))

analyzeTransactionPaths(txs) ==
    LET graph == buildTransactionGraph(txs)
    IN SortBySignificance(PathsFromRoots(graph, graph.nodes))

\* ------------------------------------------------------------------------
\* Entity pattern detector and risk scores
\* ------------------------------------------------------------------------
MaxRiskTx == 3

RiskPool ==
    { Transfer(1000,  "A", "F", 11 * 1000,     SerumDex,      <<>>, TRUE),
      Transfer(1000,  "A", "F", 101 * 1000,    SystemProgram, <<>>, FALSE),
      Transfer(4600,  "F", "B", 1001 * 1000,   SystemProgram, <<>>, FALSE),
      Transfer(90000, "F", "B", 10001 * 1000,  SerumDex,      <<>>, FALSE),
      Transfer(2000,  "B", "F", 100001 * 1000, SerumDex,      <<>>, TRUE),
      Transfer(Null,  "F", "A", Undefined,     NoAddr,        <<>>, TRUE) }

RiskLists == ListsOver(RiskPool, MaxRiskTx)

\* heliusApi.ts calculateTransactionRiskScore
calculateTransactionRiskScore(tx) ==
    LET amount == AmountOrZero(tx)
        byAmount == IF amount > 1000 * 1000 THEN 50
                    ELSE IF amount > 100 * 1000 THEN 30
                    ELSE IF amount > 10 * 1000 THEN 15 ELSE 0
        byProgram == IF tx.programId = SerumDex THEN 20 ELSE 0
        byError == IF tx.err THEN 10 ELSE 0
    IN Min(100, byAmount + byProgram + byError)

\* solanaUtils calculateRiskScore
calculateRiskScore(tx) ==
    LET amount == AmountOrZero(tx)
        byAmount == IF amount > 100000 * 1000 THEN 50
                    ELSE IF amount > 10000 * 1000 THEN 30
                    ELSE IF amount > 1000 * 1000 THEN 15 ELSE 0
        byProgram == IF tx.programId = SerumDex THEN 20 ELSE 0
        byError == IF tx.err THEN 10 ELSE 0
    IN Min(100, byAmount + byProgram + byError)

\* ENTITY_PATTERNS: the programs of each category and its minTransactions
ENTITY_PATTERNS ==
    << [type |-> "DEX", minTransactions |-> 10,
        programs |-> {"JUP4Fb2cqiRUcaTHdrPC8h2gNsA2ETXiPDD33WcGuJB",
                      "9W959DqEETiGZocYWCQPaJ6sBmUzgfxXfqGeTEdp3aQP"}],
       [type |-> "NFT_MARKETPLACE", minTransactions |-> 5,
        programs |-> {"M2mx93ekt1fmXSVkTrUL9xVFHkmME8HTUi5Cyc5aF7K",
                      "hausS13jsjafwWwGqZTUQRmWyvyxn9EQpqMwV1PBBmk"}],
       [type |-> "GAMING", minTransactions |-> 15,
        programs |-> {"GAMEFiQvN1VGoy8v1H3i9STtVfqqzRd6BnhFCTmJwz9",
                      "GAMEKqXzGJ4tG4F8z4L4tG4F8z4L4tG4F8z4L4tG4F8z4"}],
       [type |-> "DEFI", minTransactions |-> 20,
        programs |-> {"Stake11111111111111111111111111111111111111",
                      "Lend11111111111111111111111111111111111111"}] >>

\* Number of occurrences of the keys of a list, in order of first occurrence.
RECURSIVE CountKeys(_, _)
CountKeys(keys, counts) ==
    IF keys = <<>> THEN counts
    ELSE CountKeys(Tail(keys),
           IF \E i \in DOMAIN counts : counts[i].key = Head(keys)
           THEN LET i == CHOOSE k \in DOMAIN counts : counts[k].key = Head(keys)
                IN [counts EXCEPT ![i].count = @ + 1]
           ELSE Append(counts, [key |-> Head(keys), count |-> 1]))

RECURSIVE Flatten(_)
Flatten(ss) == IF ss = <<>> THEN <<>> ELSE Head(ss) \o Flatten(Tail(ss))

\* new Date(blockTime * 1000).getHours(), in UTC
HourOf(blockTime) == (blockTime \div 3600) % 24

\* detectPatterns; a confidence is kept in 120ths.
detectPatterns(txs) ==
    LET withProgram == SelectSeq(txs, LAMBDA tx : tx.programId # NoAddr)
        programInteractions ==
            CountKeys([i \in DOMAIN withProgram |-> withProgram[i].programId], <<>>)
        tokenInteractions ==
            CountKeys(Flatten([i \in DOMAIN txs |->
                [k \in DOMAIN txs[i].tokenTransfers |->
                    txs[i].tokenTransfers[k].mint]]), <<>>)
        timed == SelectSeq(txs, LAMBDA tx : tx.blockTime # Null /\ tx.blockTime # 0)
        timePatterns == CountKeys([i \in DOMAIN timed |-> HourOf(timed[i].blockTime)], <<>>)
        programPatterns ==
            Flatten([i \in DOMAIN programInteractions |->
                LET hits == SelectSeq(ENTITY_PATTERNS, LAMBDA pat :
                        programInteractions[i].key \in pat.programs
                        /\ programInteractions[i].count >= pat.minTransactions)
                IN [k \in DOMAIN hits |->
                        [type |-> hits[k].type,
                         confidence |-> Min((programInteractions[i].count * 120)
                                                \div hits[k].minTransactions, 120)]]])
        held == SelectSeq(tokenInteractions, LAMBDA t : t.count >= 5)
        tokenPatterns ==
            [i \in DOMAIN held |->
                [type |-> "TOKEN_HOLDER", confidence |-> Min(held[i].count * 12, 120)]]
        activeHours == SelectSeq(timePatterns, LAMBDA h : h.count >= 3)
        traderPatterns ==
            IF Len(activeHours) >= 3
            THEN << [type |-> "ACTIVE_TRADER",
                     confidence |-> Min(Len(activeHours) * 5, 120)] >>
            ELSE <<>>
    IN programPatterns \o tokenPatterns \o traderPatterns

\* determineEntityType: the first type whose summed confidence is the largest
determineEntityType(patterns) ==
    LET types == CountKeys([i \in DOMAIN patterns |-> patterns[i].type], <<>>)
        Score(type) == SumSeq([i \in DOMAIN patterns |->
                          IF patterns[i].type = type THEN patterns[i].confidence ELSE 0])
    IN IF types = <<>> THEN "UNKNOWN"
       ELSE LET best == CHOOSE i \in DOMAIN types :
                    /\ \A k \in DOMAIN types : Score(types[k].key) <= Score(types[i].key)
                    /\ \A k \in 1..(i - 1) : Score(types[k].key) < Score(types[i].key)
            IN IF Score(types[best].key) > 0 THEN types[best].key ELSE "UNKNOWN"

\* firstSeen starts at Infinity and stays there without a block time.
Infinity == 0 - 2

\* transactionsPerDay = transactionCount / (timeSpan / 86400), compared
\* with limit; timeSpan is lastSeen - firstSeen.
PerDayAbove(analysisRec, limit) ==
    IF analysisRec.firstSeen = Infinity
    THEN FALSE       \* count / -Infinity is -0
    ELSE LET timeSpan == analysisRec.lastSeen - analysisRec.firstSeen
         IN IF timeSpan = 0
            THEN analysisRec.transactionCount > 0    \* count / 0 is Infinity
            ELSE analysisRec.transactionCount * 24 * 60 * 60 > limit * timeSpan

calculateEntityRiskScore(analysisRec) ==
    LET byVolume == IF analysisRec.totalVolume > 1000 * 1000 THEN 20
                    ELSE IF analysisRec.totalVolume > 100 * 1000 THEN 10 ELSE 0
        byFrequency == IF PerDayAbove(analysisRec, 50) THEN 20
                       ELSE IF PerDayAbove(analysisRec, 20) THEN 10 ELSE 0
        byPattern == SumSeq([i \in DOMAIN analysisRec.patterns |->
                        IF analysisRec.patterns[i].type = "HIGH_RISK" THEN 30
                        ELSE IF analysisRec.patterns[i].type = "MEDIUM_RISK" THEN 15
                        ELSE 0])
        fanOut == Cardinality(analysisRec.associatedAddresses)
        byFanOut == IF fanOut > 50 THEN 20 ELSE IF fanOut > 20 THEN 10 ELSE 0
    IN Min(byVolume + byFrequency + byPattern + byFanOut, 100)

findAssociatedAddresses(txs) == AllEntitiesOf(txs)

\* Histories of up to MaxFanOutTx transfers, one a day, each from an address
\* of its own, all to the focal address or each to an address of its own.
MaxFanOutTx == 26

FanOutLists ==
    { WithSignatures([i \in 1..n |->
          Transfer(1000 + 86400 * i, ToString(2 * i - 1),
                   IF toFocal THEN Focal ELSE ToString(2 * i),
                   1000, SystemProgram, <<>>, FALSE)]) :
        n \in 0..MaxFanOutTx, toFocal \in BOOLEAN }

analyzeEntity(address, txs) ==
    LET timed == SelectSeq(txs, LAMBDA tx : tx.blockTime # Null /\ tx.blockTime # 0)
        times == [i \in DOMAIN timed |-> timed[i].blockTime]
        basic == [called |-> TRUE, address |-> address, type |-> "UNKNOWN",
                  patterns |-> <<>>, riskScore |-> 0, associatedAddresses |-> {},
                  transactionCount |-> Len(txs),
                  totalVolume |-> TotalVolume(txs),
                  firstSeen |-> IF timed = <<>> THEN Infinity ELSE SeqMin(times),
                  lastSeen |-> IF timed = <<>> THEN 0 ELSE SeqMax(times)]
        patterns == detectPatterns(txs)
        typed == [basic EXCEPT !.patterns = patterns,
                               !.type = determineEntityType(patterns)]
        scored == [typed EXCEPT !.riskScore = calculateEntityRiskScore(typed)]
    IN [scored EXCEPT !.associatedAddresses = findAssociatedAddresses(txs)]

\* ------------------------------------------------------------------------
\* Anomaly detector
\* ------------------------------------------------------------------------
MaxAnomalyTx == 11
MaxUntimed == 1

\* Amounts of the pool are in whole units; the third transfer has no block
\* time and is skipped by the loop.
AnomalyPool ==
    { Transfer(1000, "A",    "F", 1,         SystemProgram, <<>>, FALSE),
      Transfer(1400, "F",    "B", 50,        SerumDex,      <<>>, FALSE),
      Transfer(Null, NoAddr, "F", Undefined, NoAddr,        <<>>, FALSE) }

\* slice(-n)
LastN(s, n) == SubSeq(s, Max(1, Len(s) - n + 1), Len(s))

\* Math.abs(currentTx.amount - mean) > 3 * stdDev over the amounts of the
\* history: with n samples of sum S, mean = S / n and
\* stdDev^2 = sum((x - mean)^2) / n; both sides are squared and multiplied
\* by n^3.  mean, the squares, the division and Math.sqrt are rounded to
\* doubles: when the two sides are equal as real numbers and not zero, the
\* comparison of the doubles falls either way (44.1 against
\* 44.099999999999994 for 1,1,1,1,1,1,1,1,1,50 followed by 50), which
\* roundsAbove decides.
UnusualAmount(history, currentTx, roundsAbove) ==
    IF Len(history) < 5 THEN FALSE
    ELSE LET n == Len(history)
             S == SumSeq([i \in DOMAIN history |-> history[i].amount])
             squares == SumSeq([i \in DOMAIN history |->
                            (n * history[i].amount - S) * (n * history[i].amount - S)])
             dev == n * currentTx.amount - S
         IN \/ n * dev * dev > 9 * squares
            \/ n * dev * dev = 9 * squares /\ squares > 0 /\ roundsAbove

RapidTransactions(history, currentTx) ==
    Cardinality({i \in DOMAIN history :
        currentTx.timestamp - history[i].timestamp < 300}) >= 5

UnusualProgram(history, currentTx) ==
    IF Len(history) < 10 THEN FALSE
    ELSE currentTx.programId \notin
            {LastN(history, 10)[i].programId : i \in DOMAIN LastN(history, 10)}

NewCounterparty(history, currentTx) ==
    IF Len(history) < 5 THEN FALSE
    ELSE LET recent == LastN(history, 5)
             recentCounterparties ==
                 {recent[i].sender : i \in DOMAIN recent}
                 \cup {recent[i].receiver : i \in DOMAIN recent}
         IN currentTx.sender \notin recentCounterparties
            \/ currentTx.receiver \notin recentCounterparties

\* LARGE_VALUE_TRANSFER with a minimum history of 2
LargeValueAfterTwo(history, currentTx) ==
    IF Len(history) < 2 THEN FALSE
    ELSE currentTx.amount >
            SeqMax([i \in DOMAIN history |-> history[i].amount]) * 10

LargeValueTransfer(history, currentTx) ==
    IF Len(history) < 3 THEN FALSE
    ELSE currentTx.amount >
            SeqMax([i \in DOMAIN history |-> history[i].amount]) * 10

\* ANOMALY_PATTERNS, in the order of the array
ANOMALY_PATTERNS ==
    << [type |-> "UNUSUAL_AMOUNT", severity |-> "MEDIUM"],
       [type |-> "RAPID_TRANSACTIONS", severity |-> "HIGH"],
       [type |-> "UNUSUAL_PROGRAM", severity |-> "MEDIUM"],
       [type |-> "NEW_COUNTERPARTY", severity |-> "LOW"],
       [type |-> "LARGE_VALUE_TRANSFER", severity |-> "HIGH"] >>

Detect(type, history, currentTx, roundsAbove) ==
    IF type = "UNUSUAL_AMOUNT" THEN UnusualAmount(history, currentTx, roundsAbove)
    ELSE IF type = "RAPID_TRANSACTIONS" THEN RapidTransactions(history, currentTx)
    ELSE IF type = "UNUSUAL_PROGRAM" THEN UnusualProgram(history, currentTx)
    ELSE IF type = "NEW_COUNTERPARTY" THEN NewCounterparty(history, currentTx)
    ELSE LargeValueTransfer(history, currentTx)

\* '' for an absent programId, sender or receiver
EmptyString == ""
OrEmpty(addr) == IF addr = NoAddr THEN EmptyString ELSE addr

\* One iteration of the loop of detectAnomalies: run = [metrics, list].
DetectIteration(run, tx, roundsAbove) ==
    IF tx.blockTime = Null \/ tx.blockTime = 0 THEN run
    ELSE
      LET metric == [amount |-> AmountOrZero(tx), timestamp |-> tx.blockTime,
                     programId |-> OrEmpty(tx.programId),
                     sender |-> OrEmpty(tx.sender),
                     receiver |-> OrEmpty(tx.receiver)]
          pushed == Append(run.metrics, metric)
          history == SubSeq(pushed, 1, Len(pushed) - 1)
          fired == SelectSeq(ANOMALY_PATTERNS,
                             LAMBDA pat : Detect(pat.type, history, metric,
                                                 roundsAbove))
      IN [metrics |-> pushed,
          list |-> run.list \o
              [i \in DOMAIN fired |->
                  [transactionSignature |-> tx.signature,
                   type |-> fired[i].type, severity |-> fired[i].severity,
                   timestamp |-> tx.blockTime, amount |-> metric.amount]]]

\* The iterations whose rounding can matter: those with 5 transfers before.
RoundedIterations(txs) == {i \in DOMAIN txs : i > 5}

\* The first n iterations of the loop; roundsAbove[i] is the rounding of
\* iteration i.
RECURSIVE DetectLoop(_, _, _)
DetectLoop(txs, n, roundsAbove) ==
    IF n = 0 THEN [metrics |-> <<>>, list |-> <<>>]
    ELSE DetectIteration(DetectLoop(txs, n - 1, roundsAbove), txs[n],
                         n \in DOMAIN roundsAbove /\ roundsAbove[n])

detectAnomalies(txs, roundsAbove) == DetectLoop(txs, Len(txs), roundsAbove)

SeverityWeight(severity) ==
    IF severity = "LOW" THEN 1 ELSE IF severity = "MEDIUM" THEN 2 ELSE 3

calculateAnomalyScore(list) ==
    Min(SumSeq([i \in DOMAIN list |-> SeverityWeight(list[i].severity)]) * 10, 100)

\* ------------------------------------------------------------------------
\* Caches kept in localStorage.  JSON.stringify / JSON.parse keep the
\* strings and finite numbers of the entries as they are.
\* ------------------------------------------------------------------------
\* Date.now() / 1000: later than every block time of the ledger
Now == 1000000

EmptyStorage == [transactions |-> {}, paths |-> <<>>, analyses |-> <<>>]

\* `${from}-${to}`: one key for each pair of addresses
PathId(from, to) == <<from, to>>

processTransactionPath(stored, path) ==
    IF path.id \in DOMAIN stored
    THEN LET existingPath == stored[path.id]
         IN [stored EXCEPT ![path.id] =
               [existingPath EXCEPT
                  !.amount = @ + path.amount,
                  !.riskScore = Max(@, path.riskScore),
                  !.transactions = IF path.transactions[1] \in Range(@) THEN @
                                   ELSE Append(@, path.transactions[1])]]
    ELSE (path.id :> path) @@ stored

\* analyses[walletAddress] = analysis
cacheAnalysis(analyses, wallet, newAnalysis) == (wallet :> newAnalysis) @@ analyses

\* analyses[walletAddress] || null
getCachedAnalysis(analyses, wallet) ==
    IF wallet \in DOMAIN analyses THEN analyses[wallet] ELSE Null

\* ------------------------------------------------------------------------
\* Index page: searches, cancellation and the acquisition loop of
\* fetchTransactionHistory.  A search is identified with the controller
\* handleSearch creates for it; it advances from one await to the next.
\* ------------------------------------------------------------------------
MaxSearches == 3
MaxTxList == 6
batchSize == 5
MinAnomalyInput == 10

\* Lengths of the list getTransactions yields: none, one full batch, the
\* longest list
TxListLengths == {0, batchSize, MaxTxList}

NoRun == [pc |-> "none", fetchBalanceOnly |-> FALSE, txList |-> 0, i |-> 0,
          processedTransactions |-> <<>>]

\* controller.signal.aborted || isCancelledRef.current
Cancelled(s) == s \in aborted \/ isCancelledRef

\* if (abortController) abortController.abort()
AbortCurrent ==
    IF pageState.abortController # Null
    THEN aborted \cup {pageState.abortController} ELSE aborted

\* The searches whose fetchTransactionHistory is awaiting something
RunningFetches ==
    {s \in DOMAIN runs : runs[s].pc \in {"getTransactions", "batch", "sleep"}}

\* The details getTransactionDetails yields for the entries from..to of txList
DetailsOf(from, to) ==
    [k \in 1..(to - from + 1) |->
        [signature |-> from + k - 1]
            @@ Transfer(1000, "A", Focal, 1, SystemProgram, <<>>, FALSE)]

\* A return of handleSearch or fetchTransactionHistory runs their finally
\* blocks: setAbortController(null).  The locals of the search and its
\* controller, which nothing refers to any longer, are dropped.
Return(s, transactionsSet, anomaliesSet) ==
    /\ runs' = [runs EXCEPT ![s] = [NoRun EXCEPT !.pc = "returned"]]
    /\ pageState' = [transactions |-> transactionsSet, anomalies |-> anomaliesSet,
                     abortController |-> Null]
    /\ aborted' = aborted \ {s}
    /\ cancelledRuns' = cancelledRuns \ {s}

\* The search goes on: its controller and the cancelled runs stay.
Continue == UNCHANGED <<aborted, cancelledRuns>>

ReturnCancelled(s) == Return(s, pageState.transactions, pageState.anomalies)

\* handleSearch returns after setTimeout(() => fetchTransactionHistory(input,
\* controller), 500): its finally block runs, the timer and the controller
\* it refers to stay.
ReturnDeferred(s) ==
    /\ runs' = [runs EXCEPT ![s] = [NoRun EXCEPT !.pc = "timer"]]
    /\ pageState' = [pageState EXCEPT !.abortController = Null]
    /\ UNCHANGED <<aborted, cancelledRuns>>

\* ------------------------------------------------------------------------
\* apiUtils.ts: the RequestQueue behind withRetry.  A call of processQueue
\* runs to its first await; what is left of it is a record of chains: at the
\* batch interval pause, at the request rate pause, or at the await of
\* request.requestFn().  Timers set by setTimeout are pending until they
\* fire.
\* ------------------------------------------------------------------------
MaxRequests == 2
MaxQueueRetries == 2
batchSizeLimit == 5

RequestIds == 1..MaxRequests

NewRequestQueue ==
    [queue |-> <<>>, processing |-> FALSE, currentBatchCount |-> 0,
     batchResetTimeout |-> FALSE,
     chains |-> <<>>, processTimers |-> 0, retryTimers |-> {},
     invocations |-> [id \in RequestIds |-> 0]]

NoPromise == [state |-> "none", maxRetries |-> 0, outcomes |-> <<>>, settledBy |-> 0]

RemoveAt(seq, i) == SubSeq(seq, 1, i - 1) \o SubSeq(seq, i + 1, Len(seq))

Chain(at, request, timeToWait) ==
    [at |-> at, request |-> request, timeToWait |-> timeToWait]

NoRequest == [id |-> 0, retries |-> 0]

\* processQueue from this.queue.shift() to the await of request.requestFn():
\* the count is raised, the batch reset timer is set anew, the request
\* function is invoked.  shift() of an empty queue yields undefined and
\* request.requestFn throws: the call of processQueue ends there.
dispatch(q) ==
    IF q.queue = <<>> THEN q
    ELSE LET request == Head(q.queue) IN
         [q EXCEPT !.queue = Tail(@),
                   !.currentBatchCount = @ + 1,
                   !.batchResetTimeout = TRUE,
                   !.invocations[request.id] = @ + 1,
                   !.chains = Append(@, Chain("requestFn", request, FALSE))]

\* processQueue without the pause at the batch limit
processQueueWithoutPause(q, timeToWait) ==
    IF q.queue = <<>> THEN [q EXCEPT !.processing = FALSE]
    ELSE LET p == [q EXCEPT !.processing = TRUE] IN
         IF timeToWait
         THEN [p EXCEPT !.chains = Append(@, Chain("requestRate", NoRequest, FALSE))]
         ELSE dispatch(p)

\* processQueue up to its first await; timeToWait: whether less than
\* requestRateMs have passed since lastRequestTime.
processQueue(q, timeToWait) ==
    IF q.queue = <<>> THEN [q EXCEPT !.processing = FALSE]
    ELSE LET p == [q EXCEPT !.processing = TRUE] IN
         IF p.currentBatchCount >= batchSizeLimit
         THEN [p EXCEPT !.chains =
                   Append(@, Chain("batchInterval", NoRequest, timeToWait))]
         ELSE IF timeToWait
         THEN [p EXCEPT !.chains = Append(@, Chain("requestRate", NoRequest, FALSE))]
         ELSE dispatch(p)

\* enqueue that calls processQueue whatever processing is
enqueueAndProcess(q, request, priority, timeToWait) ==
    LET pushed == [q EXCEPT !.queue = IF priority THEN <<request>> \o @
                                      ELSE Append(@, request)]
    IN processQueue(pushed, timeToWait)

\* The executor of the promise enqueue returns
enqueue(q, request, priority, timeToWait) ==
    LET pushed == [q EXCEPT !.queue = IF priority THEN <<request>> \o @
                                      ELSE Append(@, request)]
    IN IF ~pushed.processing THEN processQueue(pushed, timeToWait) ELSE pushed

\* The retry timer callback without the call of processQueue
requeueOnly(q, request, timeToWait) ==
    [q EXCEPT !.queue = Append(@, [request EXCEPT !.retries = @ - 1]),
              !.retryTimers = @ \ {request}]

\* The callback of the retry timer: the request is pushed with one retry
\* fewer, processQueue is called when nothing else is queued or processed.
requeue(q, request, timeToWait) ==
    LET pushed == [q EXCEPT !.queue = Append(@, [request EXCEPT !.retries = @ - 1]),
                            !.retryTimers = @ \ {request}]
    IN IF Len(pushed.queue) = 1 /\ ~pushed.processing
       THEN processQueue(pushed, timeToWait) ELSE pushed

\* The catch block that re-queues whatever request.retries is
retryAlways(q, request) == [q EXCEPT !.retryTimers = @ \cup {request}]

\* The catch block of processQueue: true when the request is retried
retry(q, request) ==
    IF request.retries > 0 THEN [q EXCEPT !.retryTimers = @ \cup {request}] ELSE q

\* resolve and reject of a promise: the first call settles it
Settle(promise, state, invocation) ==
    IF promise.state = "pending"
    THEN [promise EXCEPT !.state = state, !.settledBy = invocation]
    ELSE promise

\* ------------------------------------------------------------------------
\* analyze-wallet/index.ts: fetchWithRetry
\* ------------------------------------------------------------------------
MaxFetchRetries == 2
MaxFetchAttempts == MaxFetchRetries + 3

FetchOutcomes == {"ok", "429", "500", "error"}

NoFetch == [pc |-> "none", maxRetries |-> 0, retries |-> 0, delay |-> 0,
            attempts |-> 0, outcomes |-> <<>>, result |-> "none"]

\* ------------------------------------------------------------------------
\* getTransactions: the signature pagination loop
\* ------------------------------------------------------------------------
MaxLimit == 3
MaxPage == 2

NoPagination == [pc |-> "none", limit |-> 0, allSignatures |-> <<>>,
                 hasMore |-> TRUE, requests |-> 0, result |-> <<>>]

MaxPageRequests == MaxLimit + 1

\* A signature of a page: its blockTime is not older than six months, is
\* older, or is missing.
Pages == UNION { [1..n -> {"recent", "old", "untimed"}] : n \in 0..MaxPage }

\* allSignatures.slice(0, limit)
returnSignatures(p) ==
    [p EXCEPT !.pc = "returned",
              !.result = SubSeq(p.allSignatures, 1, Min(p.limit, Len(p.allSignatures)))]

\* The test of the while loop: the next page request, or the return.
loopHead(p) ==
    IF p.hasMore /\ Len(p.allSignatures) < p.limit
    THEN [p EXCEPT !.pc = "page", !.requests = @ + 1]
    ELSE returnSignatures(p)

\* The loop body that goes on with a page of no valid signature
pageWithoutValidCheck(p, signatures) ==
    LET validSignatures == SelectSeq(signatures, LAMBDA sig : sig = "recent") IN
    IF Len(signatures) = 0 THEN returnSignatures(p)
    ELSE LET q == [p EXCEPT !.allSignatures = @ \o validSignatures,
                            !.hasMore = signatures[Len(signatures)] # "old"]
         IN IF Len(q.allSignatures) >= q.limit THEN returnSignatures(q)
            ELSE loopHead(q)

\* The loop body after the await of the page, up to the next page request
\* or the return.
page(p, signatures) ==
    LET validSignatures == SelectSeq(signatures, LAMBDA sig : sig = "recent") IN
    IF Len(signatures) = 0 \/ Len(validSignatures) = 0 THEN returnSignatures(p)
    ELSE LET q == [p EXCEPT !.allSignatures = @ \o validSignatures,
                            !.hasMore = signatures[Len(signatures)] # "old"]
         IN IF Len(q.allSignatures) >= q.limit THEN returnSignatures(q)
            ELSE loopHead(q)

\* The modules as loaded: an empty queue, no request made.
UtilsLoaded ==
    /\ heliusRequestQueue = NewRequestQueue
    /\ promises = [id \in RequestIds |-> NoPromise]
    /\ fetchRun = NoFetch
    /\ pagination = NoPagination

\* ------------------------------------------------------------------------
\* Specification.  Either one component is applied to a transfer list of
\* the input sets (pc "idle" to "done"), or detectAnomalies runs its loop
\* over a list that is drawn transfer by transfer (pc "loop") and
\* calculateAnomalyScore is applied to what it has returned, or
\* buildTransactionGraph runs its loop over a list that is drawn transfer by
\* transfer (pc "build"), or getTransactionDetails fills the caches (pc
\* "cache").  The Index page (PageSpec) and the utilities (UtilSpec) are
\* state machines of their own over the same variables.
\* ------------------------------------------------------------------------
\* The Index page as mounted: no search started yet, nothing stored.
PageMounted ==
    /\ pageState = [transactions |-> <<>>, anomalies |-> <<>>,
                    abortController |-> Null]
    /\ isCancelledRef = FALSE
    /\ aborted = {}
    /\ runs = [s \in 1..MaxSearches |-> NoRun]
    /\ cancelledRuns = {}
    /\ localStorage = EmptyStorage
    /\ writes = <<>>
    /\ UtilsLoaded

InputLists == FundingLists \cup ClusterLists \cup PathLists \cup RiskLists

InitAnalytics ==
    /\ pc = "idle"
    /\ walletAddress = Focal
    /\ PageMounted
    /\ transactions \in InputLists
    /\ fundingAnalysis = NotCalled /\ analysis = NotCalled
    /\ clusters = NotCalled /\ results = NotCalled
    /\ transactionGraph = EmptyGraph
    /\ paths = NotCalled /\ entityAnalysis = NotCalled
    /\ txRiskScores = NotCalled
    /\ metrics = <<>> /\ anomalies = NotCalled /\ anomalyScore = NotCalled

InitAnomalyLoop ==
    /\ pc = "loop"
    /\ walletAddress = Focal
    /\ PageMounted
    /\ transactions = <<>>
    /\ fundingAnalysis = NotCalled /\ analysis = NotCalled
    /\ clusters = NotCalled /\ results = NotCalled
    /\ transactionGraph = EmptyGraph
    /\ paths = NotCalled /\ entityAnalysis = NotCalled
    /\ txRiskScores = NotCalled
    /\ metrics = <<>> /\ anomalies = [called |-> TRUE, list |-> <<>>]
    /\ anomalyScore = NotCalled

InitBuildLoop ==
    /\ pc = "build"
    /\ walletAddress = Focal
    /\ PageMounted
    /\ transactions = <<>>
    /\ fundingAnalysis = NotCalled /\ analysis = NotCalled
    /\ clusters = NotCalled /\ results = NotCalled
    /\ transactionGraph = EmptyGraph
    /\ paths = NotCalled /\ entityAnalysis = NotCalled
    /\ txRiskScores = NotCalled
    /\ metrics = <<>> /\ anomalies = NotCalled /\ anomalyScore = NotCalled

\* getTransactionDetails is called for the signatures of a ledger, in any
\* order and any number of times.
InitCache ==
    /\ pc = "cache"
    /\ walletAddress = Focal
    /\ PageMounted
    /\ transactions \in RiskLists
    /\ fundingAnalysis = NotCalled /\ analysis = NotCalled
    /\ clusters = NotCalled /\ results = NotCalled
    /\ transactionGraph = EmptyGraph
    /\ paths = NotCalled /\ entityAnalysis = NotCalled
    /\ txRiskScores = NotCalled
    /\ metrics = <<>> /\ anomalies = NotCalled /\ anomalyScore = NotCalled

\* analyzeEntity over the history of a wallet with many counterparties.
InitEntity ==
    /\ pc = "entity"
    /\ walletAddress = Focal
    /\ PageMounted
    /\ transactions \in FanOutLists
    /\ fundingAnalysis = NotCalled /\ analysis = NotCalled
    /\ clusters = NotCalled /\ results = NotCalled
    /\ transactionGraph = EmptyGraph
    /\ paths = NotCalled /\ entityAnalysis = NotCalled
    /\ txRiskScores = NotCalled
    /\ metrics = <<>> /\ anomalies = NotCalled /\ anomalyScore = NotCalled

InitSearch ==
    /\ pc = "search"
    /\ walletAddress = Focal
    /\ PageMounted
    /\ transactions = <<>>
    /\ fundingAnalysis = NotCalled /\ analysis = NotCalled
    /\ clusters = NotCalled /\ results = NotCalled
    /\ transactionGraph = EmptyGraph
    /\ paths = NotCalled /\ entityAnalysis = NotCalled
    /\ txRiskScores = NotCalled
    /\ metrics = <<>> /\ anomalies = NotCalled /\ anomalyScore = NotCalled

\* Requests are enqueued in the RequestQueue of the module.
InitQueue ==
    /\ pc = "queue"
    /\ walletAddress = Focal
    /\ PageMounted
    /\ transactions = <<>>
    /\ fundingAnalysis = NotCalled /\ analysis = NotCalled
    /\ clusters = NotCalled /\ results = NotCalled
    /\ transactionGraph = EmptyGraph
    /\ paths = NotCalled /\ entityAnalysis = NotCalled
    /\ txRiskScores = NotCalled
    /\ metrics = <<>> /\ anomalies = NotCalled /\ anomalyScore = NotCalled

\* fetchWithRetry is called.
InitFetch ==
    /\ pc = "fetch"
    /\ walletAddress = Focal
    /\ PageMounted
    /\ transactions = <<>>
    /\ fundingAnalysis = NotCalled /\ analysis = NotCalled
    /\ clusters = NotCalled /\ results = NotCalled
    /\ transactionGraph = EmptyGraph
    /\ paths = NotCalled /\ entityAnalysis = NotCalled
    /\ txRiskScores = NotCalled
    /\ metrics = <<>> /\ anomalies = NotCalled /\ anomalyScore = NotCalled

\* getTransactions is called.
InitSignatures ==
    /\ pc = "signatures"
    /\ walletAddress = Focal
    /\ PageMounted
    /\ transactions = <<>>
    /\ fundingAnalysis = NotCalled /\ analysis = NotCalled
    /\ clusters = NotCalled /\ results = NotCalled
    /\ transactionGraph = EmptyGraph
    /\ paths = NotCalled /\ entityAnalysis = NotCalled
    /\ txRiskScores = NotCalled
    /\ metrics = <<>> /\ anomalies = NotCalled /\ anomalyScore = NotCalled

Init ==
    \/ InitAnalytics
    \/ InitAnomalyLoop
    \/ InitBuildLoop
    \/ InitCache
    \/ InitEntity

\* The utilities: the RequestQueue, fetchWithRetry, getTransactions
UtilInit ==
    \/ InitQueue
    \/ InitFetch
    \/ InitSignatures

GetFundingAnalytics ==
    /\ pc = "idle" /\ pc' = "done"
    /\ fundingAnalysis' = getFundingAnalytics(walletAddress, transactions)
    /\ UNCHANGED <<searchVars, cacheVars, utilVars>>
    /\ UNCHANGED <<transactionGraph, walletAddress, transactions, analysis,
                   clusters, results, paths,
                   entityAnalysis, txRiskScores, metrics, anomalies, anomalyScore>>

AnalyzeFundingHistory ==
    /\ pc = "idle" /\ pc' = "done"
    /\ IF walletAddress \in DOMAIN localStorage.analyses
       THEN /\ analysis' = getCachedAnalysis(localStorage.analyses, walletAddress)
            /\ UNCHANGED cacheVars
       ELSE /\ analysis' = analyzeFundingHistory(walletAddress, transactions)
            /\ localStorage' = [localStorage EXCEPT !.analyses =
                                   cacheAnalysis(@, walletAddress, analysis')]
            /\ writes' = Append(writes,
                  [cache |-> "analyses", key |-> walletAddress,
                   signatures |-> IF analysis'.hasFirstDeposit
                                  THEN <<analysis'.firstDeposit.transactionSignature>>
                                  ELSE <<>>,
                   timestamp |-> analysis'.firstDeposit.timestamp])
    /\ UNCHANGED <<searchVars, utilVars>>
    /\ UNCHANGED <<transactionGraph, walletAddress, transactions,
                   fundingAnalysis, clusters, results,
                   paths, entityAnalysis, txRiskScores, metrics, anomalies,
                   anomalyScore>>

\* detectTransactionClusters is called with the wallet address (the list is
\* then the one fetched for it) or with the list itself.
DetectTransactionClusters ==
    /\ pc = "idle" /\ pc' = "done"
    /\ \E walletArg \in {walletAddress, ArrayArg} :
          clusters' = [called |-> TRUE,
                       list |-> detectTransactionClusters(walletArg, transactions)]
    /\ UNCHANGED <<searchVars, cacheVars, utilVars>>
    /\ UNCHANGED <<transactionGraph, walletAddress, transactions,
                   fundingAnalysis, analysis, results,
                   paths, entityAnalysis, txRiskScores, metrics, anomalies,
                   anomalyScore>>

ClusterTransactions ==
    /\ pc = "idle" /\ pc' = "done"
    /\ results' = [called |-> TRUE, list |-> clusterTransactions(transactions)]
    /\ UNCHANGED <<searchVars, cacheVars, utilVars>>
    /\ UNCHANGED <<transactionGraph, walletAddress, transactions,
                   fundingAnalysis, analysis, clusters,
                   paths, entityAnalysis, txRiskScores, metrics, anomalies,
                   anomalyScore>>

AnalyzeTransactionPaths ==
    /\ pc = "idle" /\ pc' = "done"
    /\ transactionGraph' = buildTransactionGraph(transactions)
    /\ UNCHANGED <<searchVars, cacheVars, utilVars>>
    /\ paths' = [called |-> TRUE, list |-> analyzeTransactionPaths(transactions)]
    /\ UNCHANGED <<walletAddress, transactions, fundingAnalysis, analysis, clusters,
                   results, entityAnalysis, txRiskScores, metrics, anomalies,
                   anomalyScore>>

AnalyzeEntity ==
    /\ pc \in {"idle", "entity"} /\ pc' = "done"
    /\ entityAnalysis' = analyzeEntity(walletAddress, transactions)
    /\ UNCHANGED <<searchVars, cacheVars, utilVars>>
    /\ UNCHANGED <<transactionGraph, walletAddress, transactions,
                   fundingAnalysis, analysis, clusters,
                   results, paths, txRiskScores, metrics, anomalies, anomalyScore>>

\* The enrichment of the two acquisition paths scores every transfer.
ScoreTransactions ==
    /\ pc = "idle" /\ pc' = "done"
    /\ txRiskScores' =
          [called |-> TRUE,
           helius |-> [i \in DOMAIN transactions |->
                          calculateTransactionRiskScore(transactions[i])],
           solana |-> [i \in DOMAIN transactions |->
                          calculateRiskScore(transactions[i])]]
    /\ UNCHANGED <<searchVars, cacheVars, utilVars>>
    /\ UNCHANGED <<transactionGraph, walletAddress, transactions,
                   fundingAnalysis, analysis, clusters,
                   results, paths, entityAnalysis, metrics, anomalies, anomalyScore>>

DetectAnomalies ==
    /\ pc = "idle" /\ pc' = "done"
    /\ \E roundsAbove \in [RoundedIterations(transactions) -> BOOLEAN] :
          LET run == detectAnomalies(transactions, roundsAbove)
          IN /\ metrics' = run.metrics
             /\ anomalies' = [called |-> TRUE, list |-> run.list]
    /\ UNCHANGED <<searchVars, cacheVars, utilVars>>
    /\ UNCHANGED <<transactionGraph, walletAddress, transactions,
                   fundingAnalysis, analysis, clusters,
                   results, paths, entityAnalysis, txRiskScores, anomalyScore>>

\* The next transfer of the list detectAnomalies iterates over; the list
\* holds up to MaxAnomalyTx transfers, up to MaxUntimed of them without a
\* block time.
DetectAnomaliesIteration ==
    /\ pc = "loop"
    /\ Len(transactions) < MaxAnomalyTx
    /\ \E t \in AnomalyPool, roundsAbove \in BOOLEAN :
          LET tx == [signature |-> Len(transactions) + 1] @@ t
              run == DetectIteration([metrics |-> metrics, list |-> anomalies.list],
                                     tx, roundsAbove)
          IN /\ t.blockTime = Null =>
                   Len(transactions) - Len(metrics) < MaxUntimed
             /\ transactions' = Append(transactions, tx)
             /\ metrics' = run.metrics
             /\ anomalies' = [called |-> TRUE, list |-> run.list]
    /\ UNCHANGED <<searchVars, cacheVars, utilVars>>
    /\ UNCHANGED <<pc, transactionGraph, walletAddress, fundingAnalysis,
                   analysis, clusters,
                   results, paths, entityAnalysis, txRiskScores, anomalyScore>>

CalculateAnomalyScore ==
    /\ pc = "loop" /\ pc' = "done"
    /\ anomalyScore' = [called |-> TRUE, score |-> calculateAnomalyScore(anomalies.list)]
    /\ UNCHANGED <<searchVars, cacheVars, utilVars>>
    /\ UNCHANGED <<transactionGraph, walletAddress, transactions,
                   fundingAnalysis, analysis, clusters,
                   results, paths, entityAnalysis, txRiskScores, metrics, anomalies>>

\* The next transfer of the list buildTransactionGraph iterates over: one
\* pass of its loop, on a list of up to MaxPathTx transfers.
BuildTransactionGraphIteration ==
    /\ pc = "build"
    /\ Len(transactions) < MaxPathTx
    /\ \E t \in PathPool :
          LET tx == [signature |-> Len(transactions) + 1] @@ t
          IN /\ transactions' = Append(transactions, tx)
             /\ transactionGraph' = AddTransferToGraph(transactionGraph, tx)
    /\ UNCHANGED <<searchVars, cacheVars, utilVars>>
    /\ UNCHANGED <<pc, walletAddress, fundingAnalysis, analysis, clusters, results,
                   paths, entityAnalysis, txRiskScores, metrics, anomalies,
                   anomalyScore>>

\* The Cancel button of the search bar.
HandleCancelSearch ==
    /\ pc = "search"
    /\ isCancelledRef' = TRUE
    /\ aborted' = AbortCurrent
    /\ cancelledRuns' = cancelledRuns \cup RunningFetches
    /\ UNCHANGED <<pageState, runs, pc>>
    /\ UNCHANGED <<analyticsVars, cacheVars, utilVars>>

\* handleSearch up to its first await: handleCancelSearch(), the reset of
\* isCancelledRef, a new controller, the reset of the page state unless
\* fetchBalanceOnly.
HandleSearch ==
    /\ pc = "search"
    /\ \E s \in DOMAIN runs, fetchBalanceOnly \in BOOLEAN :
          /\ runs[s].pc = "none"
          /\ \A r \in 1..(s - 1) : runs[r].pc # "none"
          /\ runs' = [runs EXCEPT ![s].pc = "balance",
                                   ![s].fetchBalanceOnly = fetchBalanceOnly]
          /\ pageState' = IF fetchBalanceOnly
                          THEN [pageState EXCEPT !.abortController = s]
                          ELSE [transactions |-> <<>>, anomalies |-> <<>>,
                                abortController |-> s]
    /\ isCancelledRef' = FALSE
    /\ aborted' = AbortCurrent
    /\ cancelledRuns' = cancelledRuns \cup RunningFetches
    /\ UNCHANGED pc
    /\ UNCHANGED <<analyticsVars, cacheVars, utilVars>>

\* getWalletBalance settles, fulfilled or rejected: handleSearch returns
\* when cancelled; with fetchBalanceOnly it defers fetchTransactionHistory
\* by a timer after a balance and returns, and returns at once after a
\* rejection; else it enters fetchTransactionHistory, up to the await of
\* getTransactions.
BalanceSettled ==
    /\ pc = "search"
    /\ \E s \in DOMAIN runs, fulfilled \in BOOLEAN :
          /\ runs[s].pc = "balance"
          /\ IF Cancelled(s) THEN ReturnCancelled(s)
             ELSE IF runs[s].fetchBalanceOnly
             THEN IF fulfilled THEN ReturnDeferred(s) ELSE ReturnCancelled(s)
             ELSE /\ runs' = [runs EXCEPT ![s].pc = "getTransactions"]
                  /\ pageState' = [pageState EXCEPT !.abortController = s]
                  /\ Continue
    /\ UNCHANGED <<isCancelledRef, pc>>
    /\ UNCHANGED <<analyticsVars, cacheVars, utilVars>>

\* The timer of handleSearch fires: fetchTransactionHistory(input,
\* controller) up to the await of getTransactions.
HistoryTimerFired ==
    /\ pc = "search"
    /\ \E s \in DOMAIN runs :
          /\ runs[s].pc = "timer"
          /\ runs' = [runs EXCEPT ![s].pc = "getTransactions"]
          /\ pageState' = [pageState EXCEPT !.abortController = s]
          /\ Continue
    /\ UNCHANGED <<isCancelledRef, pc>>
    /\ UNCHANGED <<analyticsVars, cacheVars, utilVars>>

\* getTransactions settles with a list of one of the TxListLengths:
\* return when cancelled or when the list is empty, else the first batch
\* of detail requests is started.
GetTransactionsSettled ==
    /\ pc = "search"
    /\ \E s \in DOMAIN runs, n \in TxListLengths :
          /\ runs[s].pc = "getTransactions"
          /\ IF Cancelled(s) \/ n = 0 THEN ReturnCancelled(s)
             ELSE /\ runs' = [runs EXCEPT ![s] =
                         [NoRun EXCEPT !.pc = "batch", !.txList = n]]
                  /\ UNCHANGED pageState
                  /\ Continue
    /\ UNCHANGED <<isCancelledRef, pc>>
    /\ UNCHANGED <<analyticsVars, cacheVars, utilVars>>

\* Promise.all of the batch settles: break when cancelled; else the valid
\* details are appended and written (no write when the batch is rejected),
\* then either the 500 ms pause starts or the loop ends and the final
\* results are written.
BatchSettled ==
    /\ pc = "search"
    /\ \E s \in DOMAIN runs, outcome \in {"valid", "null", "rejected"} :
          /\ runs[s].pc = "batch"
          /\ IF Cancelled(s) THEN ReturnCancelled(s)
             ELSE LET run == runs[s]
                      last == Min(run.i + batchSize, run.txList)
                      processed ==
                          IF outcome = "valid"
                          THEN run.processedTransactions \o DetailsOf(run.i + 1, last)
                          ELSE run.processedTransactions
                  IN \E roundsAbove \in [RoundedIterations(processed) -> BOOLEAN] :
                       LET detected == detectAnomalies(processed, roundsAbove).list
                           transactionsSet ==
                               IF outcome # "rejected" THEN processed
                               ELSE pageState.transactions
                           anomaliesSet ==
                               IF outcome # "rejected"
                                     /\ Len(processed) >= MinAnomalyInput
                               THEN detected ELSE pageState.anomalies
                       IN IF run.i + batchSize < run.txList
                          THEN /\ runs' = [runs EXCEPT ![s] =
                                     [run EXCEPT !.pc = "sleep",
                                                 !.processedTransactions = processed]]
                               /\ pageState' =
                                     [pageState EXCEPT !.transactions = transactionsSet,
                                                       !.anomalies = anomaliesSet]
                               /\ Continue
                          ELSE Return(s, processed, detected)
    /\ UNCHANGED <<isCancelledRef, pc>>
    /\ UNCHANGED <<analyticsVars, cacheVars, utilVars>>

\* The pause between two batches ends: i += batchSize, break when
\* cancelled, else the next batch of detail requests is started.
PauseSettled ==
    /\ pc = "search"
    /\ \E s \in DOMAIN runs :
          /\ runs[s].pc = "sleep"
          /\ IF Cancelled(s) THEN ReturnCancelled(s)
             ELSE /\ runs' = [runs EXCEPT ![s].pc = "batch",
                                          ![s].i = @ + batchSize]
                  /\ UNCHANGED pageState
                  /\ Continue
    /\ UNCHANGED <<isCancelledRef, pc>>
    /\ UNCHANGED <<analyticsVars, cacheVars, utilVars>>

\* getTransactionDetails of a signature of the ledger: the stored
\* transaction when there is one, else the transaction is stored and, with
\* sender, receiver and amount present, its path is processed.
GetTransactionDetails ==
    /\ pc = "cache"
    /\ \E i \in DOMAIN transactions :
          LET tx == transactions[i]
              path == [id |-> PathId(tx.sender, tx.receiver),
                       source |-> tx.sender, target |-> tx.receiver,
                       amount |-> tx.amount,
                       timestamp |-> IF TimeOrZero(tx) = 0 THEN Now ELSE tx.blockTime,
                       riskScore |-> calculateRiskScore(tx),
                       transactions |-> <<tx.signature>>]
          IN /\ tx.signature \notin localStorage.transactions
             /\ IF tx.sender # NoAddr /\ tx.receiver # NoAddr /\ tx.amount # Undefined
                THEN /\ localStorage' =
                          [localStorage EXCEPT
                              !.transactions = @ \cup {tx.signature},
                              !.paths = processTransactionPath(@, path)]
                     /\ writes' = Append(writes,
                           [cache |-> "paths", key |-> path.id,
                            signatures |-> path.transactions,
                            timestamp |-> path.timestamp])
                ELSE /\ localStorage' =
                          [localStorage EXCEPT !.transactions = @ \cup {tx.signature}]
                     /\ UNCHANGED writes
    /\ UNCHANGED <<analyticsVars, searchVars, utilVars, pc>>

\* withRetry(requestFn, options, priority): the next request is enqueued
\* with options.maxRetries retries.
Enqueue ==
    /\ pc = "queue"
    /\ \E id \in RequestIds, maxRetries \in 0..MaxQueueRetries,
          priority \in BOOLEAN, timeToWait \in BOOLEAN :
          /\ promises[id].state = "none"
          /\ \A r \in 1..(id - 1) : promises[r].state # "none"
          /\ heliusRequestQueue' =
                enqueue(heliusRequestQueue, [id |-> id, retries |-> maxRetries],
                        priority, timeToWait)
          /\ promises' = [promises EXCEPT ![id] =
                [NoPromise EXCEPT !.state = "pending", !.maxRetries = maxRetries]]
    /\ UNCHANGED <<analyticsVars, searchVars, cacheVars, fetchRun, pagination, pc>>

\* The pause of batchIntervalMs ends: the count is reset, then the request
\* rate pause or the dispatch.
BatchIntervalElapsed ==
    /\ pc = "queue"
    /\ \E i \in DOMAIN heliusRequestQueue.chains :
          LET chain == heliusRequestQueue.chains[i]
              q == [heliusRequestQueue EXCEPT !.chains = RemoveAt(@, i),
                                              !.currentBatchCount = 0]
          IN /\ chain.at = "batchInterval"
             /\ heliusRequestQueue' =
                   IF chain.timeToWait
                   THEN [q EXCEPT !.chains =
                            Append(@, Chain("requestRate", NoRequest, FALSE))]
                   ELSE dispatch(q)
    /\ UNCHANGED <<analyticsVars, searchVars, cacheVars, promises, fetchRun,
                   pagination, pc>>

\* The pause that respects the request rate ends: the dispatch.
RequestRateElapsed ==
    /\ pc = "queue"
    /\ \E i \in DOMAIN heliusRequestQueue.chains :
          /\ heliusRequestQueue.chains[i].at = "requestRate"
          /\ heliusRequestQueue' =
                dispatch([heliusRequestQueue EXCEPT !.chains = RemoveAt(@, i)])
    /\ UNCHANGED <<analyticsVars, searchVars, cacheVars, promises, fetchRun,
                   pagination, pc>>

\* The batch reset timer fires.
BatchResetFired ==
    /\ pc = "queue"
    /\ heliusRequestQueue.batchResetTimeout
    /\ heliusRequestQueue' = [heliusRequestQueue EXCEPT !.currentBatchCount = 0,
                                                         !.batchResetTimeout = FALSE]
    /\ UNCHANGED <<analyticsVars, searchVars, cacheVars, promises, fetchRun,
                   pagination, pc>>

\* request.requestFn() settles: resolve; or the retry timer is set; or
\* reject; then setTimeout(() => this.processQueue(), 0).
RequestFnSettled ==
    /\ pc = "queue"
    /\ \E i \in DOMAIN heliusRequestQueue.chains, fulfilled \in BOOLEAN :
          LET request == heliusRequestQueue.chains[i].request
              invocation == heliusRequestQueue.invocations[request.id]
              q == [heliusRequestQueue EXCEPT !.chains = RemoveAt(@, i),
                                              !.processTimers = @ + 1]
              promise == [promises[request.id] EXCEPT
                             !.outcomes = Append(@, fulfilled)]
          IN /\ heliusRequestQueue.chains[i].at = "requestFn"
             /\ heliusRequestQueue' = IF fulfilled THEN q ELSE retry(q, request)
             /\ promises' = [promises EXCEPT ![request.id] =
                   IF fulfilled THEN Settle(promise, "resolved", invocation)
                   ELSE IF request.retries > 0 THEN promise
                   ELSE Settle(promise, "rejected", invocation)]
    /\ UNCHANGED <<analyticsVars, searchVars, cacheVars, fetchRun, pagination, pc>>

\* The retry timer of a failed request fires.
RetryTimerFired ==
    /\ pc = "queue"
    /\ \E request \in heliusRequestQueue.retryTimers, timeToWait \in BOOLEAN :
          heliusRequestQueue' = requeue(heliusRequestQueue, request, timeToWait)
    /\ UNCHANGED <<analyticsVars, searchVars, cacheVars, promises, fetchRun,
                   pagination, pc>>

\* The timer set at the end of processQueue fires: processQueue.
ProcessQueueTimerFired ==
    /\ pc = "queue"
    /\ heliusRequestQueue.processTimers > 0
    /\ \E timeToWait \in BOOLEAN :
          heliusRequestQueue' =
              processQueue([heliusRequestQueue EXCEPT !.processTimers = @ - 1],
                           timeToWait)
    /\ UNCHANGED <<analyticsVars, searchVars, cacheVars, promises, fetchRun,
                   pagination, pc>>

QueueNext ==
    \/ Enqueue
    \/ BatchIntervalElapsed
    \/ RequestRateElapsed
    \/ BatchResetFired
    \/ RequestFnSettled
    \/ RetryTimerFired
    \/ ProcessQueueTimerFired

\* fetchWithRetry(url, options, maxRetries) up to the first await of fetch.
FetchWithRetry ==
    /\ pc = "fetch"
    /\ fetchRun.pc = "none"
    /\ \E maxRetries \in 0..MaxFetchRetries :
          fetchRun' = [NoFetch EXCEPT !.pc = "fetch", !.maxRetries = maxRetries,
                                      !.delay = 1, !.attempts = 1]
    /\ UNCHANGED <<analyticsVars, searchVars, cacheVars, queueVars, pagination, pc>>

\* fetch settles with an OK response, a 429, another status, or a network
\* error: a return, a throw, or the await of the delay.
FetchSettled ==
    /\ pc = "fetch"
    /\ fetchRun.pc = "fetch"
    /\ \E outcome \in FetchOutcomes :
          LET run == [fetchRun EXCEPT !.outcomes = Append(@, outcome)] IN
          fetchRun' =
             IF outcome = "ok"
             THEN [run EXCEPT !.pc = "returned", !.result = outcome]
             ELSE IF outcome = "429" THEN [run EXCEPT !.pc = "delay"]
             ELSE IF run.retries >= run.maxRetries
             THEN [run EXCEPT !.pc = IF outcome = "error" THEN "thrown"
                                     ELSE "returned",
                              !.result = outcome]
             ELSE [run EXCEPT !.pc = "delay"]
    /\ UNCHANGED <<analyticsVars, searchVars, cacheVars, queueVars, pagination, pc>>

\* The delay ends: retries++, delay *= 2, the next fetch.
FetchDelayElapsed ==
    /\ pc = "fetch"
    /\ fetchRun.pc = "delay"
    /\ fetchRun.attempts < MaxFetchAttempts
    /\ fetchRun' = [fetchRun EXCEPT !.pc = "fetch", !.retries = @ + 1,
                                    !.delay = @ * 2, !.attempts = @ + 1]
    /\ UNCHANGED <<analyticsVars, searchVars, cacheVars, queueVars, pagination, pc>>

\* getTransactions(walletAddress, limit) up to the first page request.
GetTransactions ==
    /\ pc = "signatures"
    /\ pagination.pc = "none"
    /\ \E limit \in 0..MaxLimit :
          pagination' = loopHead([NoPagination EXCEPT !.limit = limit])
    /\ UNCHANGED <<analyticsVars, searchVars, cacheVars, queueVars, fetchRun, pc>>

\* The page request settles with a page of signatures or is rejected.
PageSettled ==
    /\ pc = "signatures"
    /\ pagination.pc = "page"
    /\ pagination.requests <= MaxPageRequests
    /\ \/ \E signatures \in Pages : pagination' = page(pagination, signatures)
       \/ pagination' = [pagination EXCEPT !.pc = "thrown"]
    /\ UNCHANGED <<analyticsVars, searchVars, cacheVars, queueVars, fetchRun, pc>>

Next ==
    \/ GetFundingAnalytics
    \/ AnalyzeFundingHistory
    \/ DetectTransactionClusters
    \/ ClusterTransactions
    \/ AnalyzeTransactionPaths
    \/ AnalyzeEntity
    \/ ScoreTransactions
    \/ DetectAnomalies
    \/ DetectAnomaliesIteration
    \/ CalculateAnomalyScore
    \/ BuildTransactionGraphIteration
    \/ GetTransactionDetails

Spec == Init /\ [][Next]_vars

\* The Index page: the user starts and cancels searches, the requests of
\* the searches settle in any order.
PageNext ==
    \/ HandleCancelSearch
    \/ HandleSearch
    \/ BalanceSettled
    \/ HistoryTimerFired
    \/ GetTransactionsSettled
    \/ BatchSettled
    \/ PauseSettled

PageSpec == InitSearch /\ [][PageNext]_vars

\* The utilities.  The event loop runs a timer that is due or a
\* continuation whose promise has settled, and a request function that was
\* invoked settles: weak fairness of these steps of the RequestQueue.
UtilNext ==
    \/ QueueNext
    \/ FetchWithRetry
    \/ FetchSettled
    \/ FetchDelayElapsed
    \/ GetTransactions
    \/ PageSettled

QueueProgress ==
    \/ BatchIntervalElapsed
    \/ RequestRateElapsed
    \/ RequestFnSettled
    \/ RetryTimerFired
    \/ ProcessQueueTimerFired

UtilSpec == UtilInit /\ [][UtilNext]_vars /\ WF_vars(QueueProgress)

\* ------------------------------------------------------------------------
\* Properties
\* ------------------------------------------------------------------------
\* The funding analyses that were returned (null is no analysis).
FundingResults ==
    (IF fundingAnalysis.called /\ ~fundingAnalysis.isNull
     THEN {fundingAnalysis} ELSE {})
    \cup (IF analysis.called THEN {analysis} ELSE {})

AmountsWhere(txs, P(_)) ==
    LET sel == SelectSeq(txs, P) IN
    SumSeq([i \in DOMAIN sel |-> AmountOrZero(sel[i])])

\* C1: every returned funding analysis has netBalance = totalInflow -
\* totalOutflow, totalInflow being the sum of the amounts of the transfers
\* received by the focal address and totalOutflow of those it sent.
C1_NetBalance ==
    \A fa \in FundingResults :
        /\ fa.netBalance = fa.totalInflow - fa.totalOutflow
        /\ fa.totalInflow =
             AmountsWhere(transactions, LAMBDA tx : tx.receiver = walletAddress)
        /\ fa.totalOutflow =
             AmountsWhere(transactions, LAMBDA tx : tx.sender = walletAddress)

\* The part of C1 that getFundingAnalytics satisfies on its own.
C1_HeliusOnly ==
    fundingAnalysis.called /\ ~fundingAnalysis.isNull =>
        /\ fundingAnalysis.netBalance =
             fundingAnalysis.totalInflow - fundingAnalysis.totalOutflow
        /\ fundingAnalysis.totalInflow =
             AmountsWhere(transactions, LAMBDA tx : tx.receiver = walletAddress)
        /\ fundingAnalysis.totalOutflow =
             AmountsWhere(transactions, LAMBDA tx : tx.sender = walletAddress)

\* C4: in every returned balance timeline each entry's balance is the
\* previous entry's balance (0 before the first) plus its amount for a
\* deposit and minus its amount for a withdrawal, and the timestamps never
\* decrease.
C4_TimelineConsistent ==
    \A fa \in FundingResults :
        \A i \in DOMAIN fa.timelineData :
            LET e == fa.timelineData[i]
                prev == IF i = 1 THEN 0 ELSE fa.timelineData[i - 1].balance
            IN /\ e.balance = IF e.isDeposit THEN prev + e.amount
                              ELSE prev - e.amount
               /\ i > 1 => fa.timelineData[i - 1].timestamp <= e.timestamp

C4_Witness ==
    \E fa \in FundingResults :
        /\ Len(fa.timelineData) >= 3
        /\ \E i, j \in DOMAIN fa.timelineData :
              /\ fa.timelineData[i].isDeposit
              /\ ~fa.timelineData[j].isDeposit
              /\ fa.timelineData[j].amount > 0
        /\ \E i \in DOMAIN transactions :
              i < Len(transactions)
              /\ TimeOrZero(transactions[i]) > TimeOrZero(transactions[i + 1])

\* high above 50% of totalInflow (more than all the rest), medium above 20%
\* (more than a quarter of the rest), else low
ShareConfidence(amount, totalInflow) ==
    IF amount > totalInflow - amount THEN "high"
    ELSE IF 4 * amount > totalInflow - amount THEN "medium"
    ELSE "low"

\* The focal wallet receives 100 from A, then sends 30 to B.
Scenario3 ==
    WithSignatures(<< Transfer(10, "A", "F", 100, SystemProgram, <<>>, FALSE),
                      Transfer(20, "F", "B", 30, SystemProgram, <<>>, FALSE) >>)

Scenario3Result(fa) ==
    /\ fa.totalInflow = 100 /\ fa.totalOutflow = 30 /\ fa.netBalance = 70
    /\ Len(fa.topSources) = 1
    /\ fa.topSources[1].address = "A"
    /\ fa.topSources[1].amount = 100
    /\ fa.topSources[1].confidence = "high"

InboundCount(addr) ==
    Cardinality({i \in DOMAIN transactions :
        transactions[i].sender = addr /\ transactions[i].receiver = walletAddress})

C2_SizeAndMinimum ==
    /\ clusters.called =>
          \A i \in DOMAIN clusters.list :
              /\ "size" \in DOMAIN clusters.list[i]
              /\ clusters.list[i].size = Len(clusters.list[i].transactions)
              /\ Len(clusters.list[i].transactions) >= 3
    /\ results.called =>
          \A i \in DOMAIN results.list :
              /\ "size" \in DOMAIN results.list[i]
              /\ results.list[i].size = Len(results.list[i].transactions)
              /\ Len(results.list[i].transactions) >= 3

\* The part of C2 that detectTransactionClusters satisfies on its own.
C2_DetectOnly ==
    clusters.called =>
        \A i \in DOMAIN clusters.list :
            /\ clusters.list[i].size = Len(clusters.list[i].transactions)
            /\ Len(clusters.list[i].transactions) >= 3

\* C3: every path analyzeTransactionPaths returns has a significance in
\* [0, 1] and above 0.1 (20 and 2 in twentieths).
C3_SignificanceRange ==
    paths.called =>
        \A i \in DOMAIN paths.list :
            /\ paths.list[i].significance >= 0
            /\ paths.list[i].significance <= 20
            /\ paths.list[i].significance > 2

\* A returned path whose unclamped score exceeds 1 next to one below 1.
C3_Witness ==
    /\ paths.called
    /\ \E i, j \in DOMAIN paths.list :
          /\ paths.list[i].significance = 20
          /\ Len(paths.list[i].addresses) = 4
          /\ paths.list[j].significance < 20

\* addr is the sender of a transfer that has a receiver: it has an outgoing
\* edge.
HasOutgoingEdge(addr) ==
    \E i \in DOMAIN transactions :
        transactions[i].sender = addr /\ transactions[i].receiver # NoAddr

\* C8: every returned path has at least 2 addresses, and no returned path
\* starts at an address that is the sender of no transfer.
C8_NoTrivialPaths ==
    paths.called =>
        \A i \in DOMAIN paths.list :
            /\ Len(paths.list[i].addresses) >= 2
            /\ HasOutgoingEdge(paths.list[i].addresses[1])

\* Paths were returned although some wallet node only ever receives.
C8_Witness ==
    /\ paths.called
    /\ Len(paths.list) >= 2
    /\ \E k \in DOMAIN transactions :
          /\ transactions[k].receiver # NoAddr
          /\ transactions[k].sender # NoAddr
          /\ ~HasOutgoingEdge(transactions[k].receiver)

\* The transfers detectAnomalies processes: those with a block time.
Processed(tx) == tx.blockTime # Null /\ tx.blockTime # 0

\* The processed transfers before position k of the list.
ProcessedBefore(k) == SelectSeq(SubSeq(transactions, 1, k - 1), Processed)

\* The position of the transfer an anomaly was reported for.
PositionOf(anomaly) ==
    CHOOSE k \in DOMAIN transactions :
        transactions[k].signature = anomaly.transactionSignature

MinimumHistory(type) ==
    IF type = "UNUSUAL_PROGRAM" THEN 10
    ELSE IF type = "LARGE_VALUE_TRANSFER" THEN 3
    ELSE 5

\* C5: every anomaly detectAnomalies reports was preceded by at least the
\* minimum history of its rule (5 processed transfers for UNUSUAL_AMOUNT,
\* RAPID_TRANSACTIONS and NEW_COUNTERPARTY, 10 for UNUSUAL_PROGRAM, 3 for
\* LARGE_VALUE_TRANSFER), so none is reported for the first three processed
\* transfers.
C5_MinimumHistory ==
    anomalies.called =>
        \A i \in DOMAIN anomalies.list :
            LET before == Len(ProcessedBefore(PositionOf(anomalies.list[i])))
            IN /\ before >= MinimumHistory(anomalies.list[i].type)
               /\ before >= 3

\* All five rules have fired, LARGE_VALUE_TRANSFER or UNUSUAL_PROGRAM right
\* at its minimum history.
C5_Witness ==
    /\ anomalies.called
    /\ \A p \in Range(ANOMALY_PATTERNS) :
          \E i \in DOMAIN anomalies.list : anomalies.list[i].type = p.type
    /\ \E i \in DOMAIN anomalies.list :
          /\ anomalies.list[i].type \in {"LARGE_VALUE_TRANSFER", "UNUSUAL_PROGRAM"}
          /\ Len(ProcessedBefore(PositionOf(anomalies.list[i])))
                = MinimumHistory(anomalies.list[i].type)

\* C6: every risk score lies in [0, 100]: the riskScore of every cluster of
\* detectTransactionClusters and of clusterTransactions (in tenths there),
\* the riskScore of analyzeEntity, the riskScore of every transaction and
\* the score of calculateAnomalyScore.
C6_RiskScoreRange ==
    /\ clusters.called =>
          \A i \in DOMAIN clusters.list :
              clusters.list[i].riskScore \in 0..100
    /\ results.called =>
          \A i \in DOMAIN results.list :
              results.list[i].riskScore \in 0..(100 * 10)
    /\ entityAnalysis.called => entityAnalysis.riskScore \in 0..100
    /\ txRiskScores.called =>
          \A i \in DOMAIN txRiskScores.helius :
              /\ txRiskScores.helius[i] \in 0..100
              /\ txRiskScores.solana[i] \in 0..100
    /\ anomalyScore.called => anomalyScore.score \in 0..100

\* An amount cluster of clusterTransactions whose sum of terms exceeds 100
\* has the riskScore 100.
C6_Witness ==
    /\ results.called
    /\ \E i \in DOMAIN results.list :
          /\ results.list[i].type = "amount-based"
          /\ (15 + Len(results.list[i].transactions) * 10) * 10
                + results.list[i].id * 2 > 100 * 10
          /\ results.list[i].riskScore = 100 * 10

\* C7: with an empty transfer list path analysis, clustering and anomaly
\* detection return an empty list, analyzeEntity returns type UNKNOWN with
\* riskScore 0, no patterns and zero volume, and the funding aggregation
\* returns an analysis with totalInflow = totalOutflow = netBalance = 0, no
\* sources and an empty timeline.
C7_EmptyInput ==
    transactions = <<>> =>
        /\ paths.called => paths.list = <<>>
        /\ clusters.called => clusters.list = <<>>
        /\ results.called => results.list = <<>>
        /\ anomalies.called => anomalies.list = <<>>
        /\ entityAnalysis.called =>
              /\ entityAnalysis.type = "UNKNOWN"
              /\ entityAnalysis.riskScore = 0
              /\ entityAnalysis.patterns = <<>>
              /\ entityAnalysis.totalVolume = 0
        /\ fundingAnalysis.called => ~fundingAnalysis.isNull
        /\ \A fa \in FundingResults :
              /\ fa.totalInflow = 0 /\ fa.totalOutflow = 0 /\ fa.netBalance = 0
              /\ fa.topSources = <<>>
              /\ fa.timelineData = <<>>

\* The part of C7 that holds: every component but getFundingAnalytics.
C7_AllButHelius ==
    transactions = <<>> =>
        /\ paths.called => paths.list = <<>>
        /\ clusters.called => clusters.list = <<>>
        /\ results.called => results.list = <<>>
        /\ anomalies.called => anomalies.list = <<>>
        /\ entityAnalysis.called =>
              /\ entityAnalysis.type = "UNKNOWN"
              /\ entityAnalysis.riskScore = 0
              /\ entityAnalysis.patterns = <<>>
              /\ entityAnalysis.totalVolume = 0
        /\ analysis.called =>
              /\ analysis.totalInflow = 0 /\ analysis.totalOutflow = 0
              /\ analysis.netBalance = 0
              /\ analysis.topSources = <<>>
              /\ analysis.timelineData = <<>>

\* The amounts of the processed transfers before position k.
PrecedingAmounts(k) ==
    [i \in DOMAIN ProcessedBefore(k) |-> AmountOrZero(ProcessedBefore(k)[i])]

FiresUnusualAmount(k) ==
    \E i \in DOMAIN anomalies.list :
        /\ anomalies.list[i].transactionSignature = transactions[k].signature
        /\ anomalies.list[i].type = "UNUSUAL_AMOUNT"

\* (amount - mean)^2 - (3 * stdDev)^2 over the amounts xs, times n^2:
\* with sum S and sum of squares Q, mean = S / n and stdDev^2 = Q / n - mean^2
ThreeSigmaExcess(xs, amount) ==
    LET n == Len(xs)
        S == SumSeq(xs)
        Q == SumSeq([i \in DOMAIN xs |-> xs[i] * xs[i]])
    IN (n * amount - S) * (n * amount - S) - 9 * (n * Q - S * S)

\* C10: UNUSUAL_AMOUNT is reported for a processed transfer exactly when at
\* least 5 processed transfers precede it and |amount - mean| > 3 x the
\* population standard deviation of all preceding amounts; it is reported
\* for an amount of 50 after nine amounts below 2, and not for an amount
\* equal to every preceding amount.
C10_UnusualAmount ==
    anomalies.called =>
        \A k \in DOMAIN transactions :
            Processed(transactions[k]) =>
                LET xs == PrecedingAmounts(k)
                    amount == AmountOrZero(transactions[k])
                IN /\ FiresUnusualAmount(k) <=>
                        (Len(xs) >= 5 /\ ThreeSigmaExcess(xs, amount) > 0)
                   /\ (Len(xs) = 9 /\ amount = 50 /\ \A i \in DOMAIN xs : xs[i] < 2)
                        => FiresUnusualAmount(k)
                   /\ (\A i \in DOMAIN xs : xs[i] = amount)
                        => ~FiresUnusualAmount(k)

\* The part of C10 that holds: away from equality of the two sides.
C10_AwayFromEquality ==
    anomalies.called =>
        \A k \in DOMAIN transactions :
            Processed(transactions[k]) =>
                LET xs == PrecedingAmounts(k)
                    amount == AmountOrZero(transactions[k])
                IN /\ Len(xs) < 5 => ~FiresUnusualAmount(k)
                   /\ (Len(xs) >= 5 /\ ThreeSigmaExcess(xs, amount) > 0)
                        => FiresUnusualAmount(k)
                   /\ (Len(xs) >= 5 /\ ThreeSigmaExcess(xs, amount) < 0)
                        => ~FiresUnusualAmount(k)
                   /\ (Len(xs) = 9 /\ amount = 50 /\ \A i \in DOMAIN xs : xs[i] < 2)
                        => FiresUnusualAmount(k)
                   /\ (\A i \in DOMAIN xs : xs[i] = amount)
                        => ~FiresUnusualAmount(k)

\* C11: the amount history of detectAnomalies holds the amounts of the
\* processed transfers whose amount is present, and no sample for a
\* processed transfer whose amount is missing.
C11_MissingAmountExcluded ==
    anomalies.called =>
        LET present == SelectSeq(transactions,
                LAMBDA tx : Processed(tx) /\ tx.amount # Undefined)
        IN [i \in DOMAIN metrics |-> metrics[i].amount]
              = [i \in DOMAIN present |-> present[i].amount]

\* The tiers of the entity risk score over the transfers analysed.
VolumeTier ==
    LET totalVolume == AmountsWhere(transactions, LAMBDA tx : TRUE)
    IN IF totalVolume > 1000 * 1000 THEN 20
       ELSE IF totalVolume > 100 * 1000 THEN 10 ELSE 0

PatternBonus ==
    LET flagged == entityAnalysis.patterns
    IN 30 * Cardinality({i \in DOMAIN flagged : flagged[i].type = "HIGH_RISK"})
       + 15 * Cardinality({i \in DOMAIN flagged : flagged[i].type = "MEDIUM_RISK"})

FanOutTier ==
    LET addresses ==
            ({transactions[i].sender : i \in DOMAIN transactions}
             \cup {transactions[i].receiver : i \in DOMAIN transactions})
            \ {NoAddr}
    IN IF Cardinality(addresses) > 50 THEN 20
       ELSE IF Cardinality(addresses) > 20 THEN 10 ELSE 0

\* C12: a ratio over a zero denominator counts as zero: with totalInflow = 0
\* every funding source of getFundingAnalytics has the confidence of a zero
\* share, and when all timed transfers of an entity share one timestamp
\* (lastSeen = firstSeen) the frequency tier adds nothing to its riskScore.
C12_ZeroDenominator ==
    /\ (fundingAnalysis.called /\ ~fundingAnalysis.isNull
            /\ fundingAnalysis.totalInflow = 0) =>
          \A i \in DOMAIN fundingAnalysis.topSources :
              fundingAnalysis.topSources[i].confidence = "low"
    /\ (entityAnalysis.called /\ entityAnalysis.firstSeen # Infinity
            /\ entityAnalysis.lastSeen = entityAnalysis.firstSeen) =>
          entityAnalysis.riskScore
              = Min(100, VolumeTier + PatternBonus + FanOutTier)

\* The kind of the node of an address; "none" when it has no node.
KindOf(g, address) == IF HasNode(g, address) THEN NodeOf(g, address).type ELSE "none"

\* C13: a step of the program leaves the kind of every node of the graph as
\* it was when the address was inserted, whatever role the address takes
\* in the transfers added by the step.
C13_KindFixed ==
    [][\A i \in DOMAIN transactionGraph.nodes :
          KindOf(transactionGraph', transactionGraph.nodes[i].address)
              = transactionGraph.nodes[i].type]_vars

\* An address inserted as a program is later the receiver of a transfer.
C13_Witness ==
    /\ pc = "build"
    /\ \E i, j \in DOMAIN transactions :
          /\ i < j
          /\ transactions[i].programId = transactions[j].receiver
          /\ \A k \in 1..i : transactions[i].programId
                  \notin {transactions[k].sender, transactions[k].receiver}
          /\ KindOf(transactionGraph, transactions[j].receiver) = "program"

\* The graph of the transfer list is built (wholly, or up to the last
\* transfer drawn).
GraphBuilt == pc = "build" \/ paths.called

\* Number of transfers of the list with sender a and receiver b
TransferCount(a, b) ==
    Cardinality({i \in DOMAIN transactions :
                    transactions[i].sender = a /\ transactions[i].receiver = b})

\* node.outgoing.get(b) of the node of a, node.incoming.get(a) of the node
\* of b; 0 where the node or the key does not exist
OutgoingCount(a, b) ==
    IF HasNode(transactionGraph, a)
    THEN GetOrZero(NodeOf(transactionGraph, a).outgoing, b) ELSE 0
IncomingCount(a, b) ==
    IF HasNode(transactionGraph, b)
    THEN GetOrZero(NodeOf(transactionGraph, b).incoming, a) ELSE 0

\* Every address the list or the graph names, the absent one included
GraphAddresses ==
    UNION { {transactions[i].sender, transactions[i].receiver,
             transactions[i].programId} : i \in DOMAIN transactions }
    \cup UNION { {transactionGraph.nodes[i].address}
                    \cup DOMAIN transactionGraph.nodes[i].incoming
                    \cup DOMAIN transactionGraph.nodes[i].outgoing :
                 i \in DOMAIN transactionGraph.nodes }
    \cup UNION { {transactionGraph.edges[i].from}
                    \cup Range(transactionGraph.edges[i].to) :
                 i \in DOMAIN transactionGraph.edges }
    \cup {NoAddr}

\* C20: in the built graph the outgoing count of a towards b and the
\* incoming count of b from a both equal the number of transfers with
\* sender a and receiver b, b is in the edge set of a exactly when that
\* number is at least 1, and the absent address has no edge and no count.
C20_EdgeCounts ==
    GraphBuilt =>
        \A a, b \in GraphAddresses :
            LET count == IF a = NoAddr \/ b = NoAddr THEN 0 ELSE TransferCount(a, b)
            IN /\ OutgoingCount(a, b) = count
               /\ IncomingCount(a, b) = count
               /\ b \in Range(EdgesFrom(transactionGraph, a)) <=> count >= 1

\* The graph of a list with two transfers of one sender and receiver and a
\* transfer that lacks its sender.
C20_Witness ==
    /\ pc = "build"
    /\ \E a, b \in GraphAddresses \ {NoAddr} : TransferCount(a, b) = 2
    /\ \E i \in DOMAIN transactions :
          transactions[i].sender = NoAddr /\ transactions[i].receiver # NoAddr

\* C14: a run of fetchTransactionHistory that was under way when
\* handleCancelSearch was invoked takes no step but its return: it starts
\* no batch of detail requests and leaves the transactions and anomalies
\* of the page state as they are.
C14_CancelStopsAcquisition ==
    [][\A s \in cancelledRuns :
          runs'[s] # runs[s] =>
              /\ runs'[s].pc = "returned"
              /\ pageState'.transactions = pageState.transactions
              /\ pageState'.anomalies = pageState.anomalies]_vars

\* The entries written to a cache under a key, in the order of the writes
WritesTo(cache, key) ==
    SelectSeq(writes, LAMBDA w : w.cache = cache /\ w.key = key)

\* C15: the entry stored under a key of the paths or of the analyses holds
\* each signature written under the key once and none else, and its
\* timestamp is the earliest timestamp written under the key.
C15_CacheMerges ==
    /\ \A id \in DOMAIN localStorage.paths :
          LET written == WritesTo("paths", id)
              entry == localStorage.paths[id]
          IN /\ Range(entry.transactions)
                    = UNION {Range(written[k].signatures) : k \in DOMAIN written}
             /\ Len(entry.transactions) = Cardinality(Range(entry.transactions))
             /\ entry.timestamp
                    = SeqMin([k \in DOMAIN written |-> written[k].timestamp])
    /\ \A wallet \in DOMAIN localStorage.analyses :
          LET written == WritesTo("analyses", wallet)
              entry == localStorage.analyses[wallet]
          IN /\ (IF entry.hasFirstDeposit
                 THEN {entry.firstDeposit.transactionSignature} ELSE {})
                    = UNION {Range(written[k].signatures) : k \in DOMAIN written}
             /\ entry.firstDeposit.timestamp
                    = SeqMin([k \in DOMAIN written |-> written[k].timestamp])

\* The runs of the time-sorted transfers in which each transfer follows the
\* previous one by less than 600 s, that no neighbour extends, of at least
\* MinClusterSize transfers.
GapRuns ==
    LET sorted == SortByBlockTime(transactions)
        Near(k) == sorted[k + 1].blockTime - sorted[k].blockTime < 600
    IN { SubSeq(sorted, a, b) : <<a, b>> \in
           { r \in (DOMAIN sorted) \X (DOMAIN sorted) :
               /\ r[2] - r[1] + 1 >= MinClusterSize
               /\ \A k \in r[1]..(r[2] - 1) : Near(k)
               /\ r[1] > 1 => ~Near(r[1] - 1)
               /\ r[2] < Len(sorted) => ~Near(r[2]) } }

TimeBasedClusters(list) ==
    { list[i].transactions : i \in { j \in DOMAIN list : list[j].type = "time-based" } }

AllTimed == \A i \in DOMAIN transactions : transactions[i].blockTime # Null

\* C16: over transfers that all carry a block time, the time-based
\* clusters of detectTransactionClusters and of clusterTransactions are the
\* maximal runs of the time-sorted transfers in which each transfer follows
\* the previous one by less than 600 s.
C16_TimeClustersAreGapRuns ==
    /\ (clusters.called /\ AllTimed) => TimeBasedClusters(clusters.list) = GapRuns
    /\ (results.called /\ AllTimed) => TimeBasedClusters(results.list) = GapRuns

\* The part of C16 that clusterTransactions satisfies.
C16_ClusterTransactionsOnly ==
    (results.called /\ AllTimed) => TimeBasedClusters(results.list) = GapRuns

\* C17: the anomalies detectAnomalies has returned for the list are those
\* it returns for the same transfers in the order of their block times.
C17_TimestampOrder ==
    anomalies.called =>
        LET sorted == SortByBlockTime(transactions)
        IN \E roundsAbove \in [RoundedIterations(sorted) -> BOOLEAN] :
              Range(anomalies.list) = Range(detectAnomalies(sorted, roundsAbove).list)

\* The signatures of the inbound transfers (receiver the focal address,
\* amount present and positive) that no inbound transfer precedes in time.
EarliestInbound ==
    LET inbound == {i \in DOMAIN transactions :
                       /\ transactions[i].receiver = walletAddress
                       /\ ValidAmount(transactions[i])}
    IN {transactions[i].signature : i \in
          {j \in inbound : \A k \in inbound :
              TimeOrZero(transactions[j]) <= TimeOrZero(transactions[k])}}

IsEarliestInbound(result) ==
    /\ result.hasFirstDeposit <=> EarliestInbound # {}
    /\ result.hasFirstDeposit =>
          result.firstDeposit.transactionSignature \in EarliestInbound

\* C18: the firstDeposit of getFundingAnalytics and of analyzeFundingHistory
\* is an inbound transfer of the smallest timestamp, whatever the order of
\* the transfers in the list.
C18_FirstDepositEarliest ==
    /\ (fundingAnalysis.called /\ ~fundingAnalysis.isNull) =>
          IsEarliestInbound(fundingAnalysis)
    /\ analysis.called => IsEarliestInbound(analysis)

\* +20 above 50 transfers a day, +10 above 20, over a time span above 0
FrequencyTier ==
    LET timeSpan == entityAnalysis.lastSeen - entityAnalysis.firstSeen
        count == entityAnalysis.transactionCount
    IN IF count * 86400 > 50 * timeSpan THEN 20
       ELSE IF count * 86400 > 20 * timeSpan THEN 10 ELSE 0

\* C19: over transfers that span some time, the riskScore of analyzeEntity
\* is min(100, volume tier + frequency tier + pattern bonus + fan-out
\* tier), the fan-out tier being 20 above 50 distinct sender and receiver
\* addresses and 10 above 20.
C19_EntityRiskScore ==
    (/\ entityAnalysis.called
     /\ entityAnalysis.firstSeen # Infinity
     /\ entityAnalysis.lastSeen > entityAnalysis.firstSeen) =>
        entityAnalysis.riskScore
            = Min(100, VolumeTier + FrequencyTier + PatternBonus + FanOutTier)

\* C19 without the fan-out tier, which analyzeEntity never adds.
C19_WithoutFanOut ==
    (/\ entityAnalysis.called
     /\ entityAnalysis.firstSeen # Infinity
     /\ entityAnalysis.lastSeen > entityAnalysis.firstSeen) =>
        entityAnalysis.riskScore
            = Min(100, VolumeTier + FrequencyTier + PatternBonus)
\* ------------------------------------------------------------------------
\* Bounded depth-first search
\* ------------------------------------------------------------------------
\* C21: no address occurs twice within one emitted path and no emitted path
\* has more than maxDepth + 1 = 4 addresses.
C21_SimpleBoundedPaths ==
    paths.called =>
        \A i \in DOMAIN paths.list :
            LET addresses == paths.list[i].addresses IN
            /\ Len(addresses) <= maxDepth + 1
            /\ \A j, k \in DOMAIN addresses : j # k => addresses[j] # addresses[k]

\* A path of 4 addresses was emitted, one address occurs in two different
\* emitted paths at a position after the root, and the graph has a cycle
\* the search ran into.
C21_Witness ==
    /\ paths.called
    /\ \E i \in DOMAIN paths.list : Len(paths.list[i].addresses) = maxDepth + 1
    /\ \E i, j \in DOMAIN paths.list :
          /\ i # j
          /\ paths.list[i].addresses[1] # paths.list[j].addresses[1]
          /\ \E a \in Range(paths.list[i].addresses) :
                a \in Range(paths.list[j].addresses)
    /\ \E a, b \in GraphAddresses :
          /\ b \in Range(EdgesFrom(transactionGraph, a))
          /\ a \in Range(EdgesFrom(transactionGraph, b))

\* The simple paths of the graph that extend the paths of set ps by up to n
\* recorded edges.
RECURSIVE Extensions(_, _, _)
Extensions(graph, ps, n) ==
    IF n = 0 \/ ps = {} THEN {}
    ELSE LET longer == UNION { { Append(p, b) :
                                   b \in Range(EdgesFrom(graph, p[Len(p)]))
                                          \ Range(p) } : p \in ps }
         IN longer \cup Extensions(graph, longer, n - 1)

\* The simple paths of 2 to maxDepth + 1 addresses along recorded edges
\* from the wallet-kind nodes.
SimplePathsFromWallets(graph) ==
    Extensions(graph,
               { <<graph.nodes[i].address>> :
                   i \in { k \in DOMAIN graph.nodes : graph.nodes[k].type = "wallet" } },
               maxDepth)

\* The transfers record an edge from a to b.
RecordedEdge(a, b) ==
    \E i \in DOMAIN transactions :
        /\ transactions[i].sender = a /\ transactions[i].receiver = b
        /\ a # NoAddr /\ b # NoAddr

\* C28: every emitted path starts at a wallet-kind node and follows recorded
\* edges only, and every simple path of 2 to 4 addresses along recorded
\* edges from a wallet-kind root is emitted, exactly once.
C28_PathsAreTheSimplePaths ==
    paths.called =>
        /\ \A i \in DOMAIN paths.list :
              LET addresses == paths.list[i].addresses IN
              /\ KindOf(transactionGraph, addresses[1]) = "wallet"
              /\ \A j \in 1..(Len(addresses) - 1) :
                    RecordedEdge(addresses[j], addresses[j + 1])
        /\ { paths.list[i].addresses : i \in DOMAIN paths.list }
             = SimplePathsFromWallets(transactionGraph)
        /\ \A i, j \in DOMAIN paths.list :
              paths.list[i].addresses = paths.list[j].addresses => i = j

\* Paths were emitted, one of 4 addresses, while a node that is not of the
\* wallet kind has an outgoing edge.
C28_Witness ==
    /\ paths.called
    /\ \E i \in DOMAIN paths.list : Len(paths.list[i].addresses) = maxDepth + 1
    /\ \E k \in DOMAIN transactionGraph.nodes :
          /\ transactionGraph.nodes[k].type # "wallet"
          /\ EdgesFrom(transactionGraph, transactionGraph.nodes[k].address) # <<>>

\* ------------------------------------------------------------------------
\* Timeline balance and net balance
\* ------------------------------------------------------------------------
\* C27: the balance of the last timeline entry of getFundingAnalytics equals
\* netBalance, and netBalance is 0 when the timeline is empty.
C27_LastBalanceIsNet ==
    (fundingAnalysis.called /\ ~fundingAnalysis.isNull) =>
        LET timeline == fundingAnalysis.timelineData IN
        fundingAnalysis.netBalance
            = IF timeline = <<>> THEN 0 ELSE timeline[Len(timeline)].balance

\* ------------------------------------------------------------------------
\* Superseded searches
\* ------------------------------------------------------------------------
\* A later search was started after search s.
Superseded(s) == \E r \in DOMAIN runs : r > s /\ runs[r].pc # "none"

\* C26: once a newer search has been started, a step of an earlier search
\* is its return: it starts no request and leaves the transactions and
\* anomalies of the page state as they are.
C26_NewSearchSupersedes ==
    [][\A s \in DOMAIN runs :
          (Superseded(s) /\ runs'[s] # runs[s]) =>
              /\ runs'[s].pc = "returned"
              /\ pageState'.transactions = pageState.transactions
              /\ pageState'.anomalies = pageState.anomalies]_vars

\* ------------------------------------------------------------------------
\* RequestQueue
\* ------------------------------------------------------------------------
\* The requests that were enqueued
Enqueued == {id \in RequestIds : promises[id].state # "none"}

Settled(id) == promises[id].state \in {"resolved", "rejected"}

\* The request is in the queue, waits for its retry timer, or its request
\* function is running.
Held(id) ==
    \/ \E i \in DOMAIN heliusRequestQueue.queue : heliusRequestQueue.queue[i].id = id
    \/ \E request \in heliusRequestQueue.retryTimers : request.id = id
    \/ \E i \in DOMAIN heliusRequestQueue.chains :
          /\ heliusRequestQueue.chains[i].at = "requestFn"
          /\ heliusRequestQueue.chains[i].request.id = id

\* C22: the request function of a request enqueued with maxRetries = n is
\* invoked at most n + 1 times; the promise is resolved by the first
\* invocation that succeeds, rejected by invocation n + 1 after all n + 1
\* have failed, and a settled request is neither invoked nor queued again.
C22_AtMostNPlusOneInvocations ==
    \A id \in Enqueued :
        LET promise == promises[id]
            invoked == heliusRequestQueue.invocations[id]
        IN /\ invoked <= promise.maxRetries + 1
           /\ Len(promise.outcomes) <= invoked
           /\ \A k \in 1..(Len(promise.outcomes) - 1) : ~promise.outcomes[k]
           /\ promise.state = "pending" =>
                 \A k \in DOMAIN promise.outcomes : ~promise.outcomes[k]
           /\ promise.state = "resolved" =>
                 /\ promise.settledBy = invoked
                 /\ Len(promise.outcomes) = invoked
                 /\ promise.outcomes[invoked]
           /\ promise.state = "rejected" =>
                 /\ promise.settledBy = promise.maxRetries + 1
                 /\ invoked = promise.maxRetries + 1
                 /\ Len(promise.outcomes) = invoked
                 /\ ~promise.outcomes[invoked]
           /\ Settled(id) => ~Held(id)

\* One promise was resolved by a retry, one was rejected after its retries.
C22_Witness ==
    /\ pc = "queue"
    /\ \E id \in Enqueued :
          promises[id].state = "resolved" /\ promises[id].settledBy >= 2
    /\ \E id \in Enqueued :
          promises[id].state = "rejected" /\ promises[id].maxRetries >= 1

\* The calls of processQueue that are at an await or due by their timer
ActiveChains == Len(heliusRequestQueue.chains) + heliusRequestQueue.processTimers

RunningRequests ==
    {i \in DOMAIN heliusRequestQueue.chains :
        heliusRequestQueue.chains[i].at = "requestFn"}

\* C25: at most one request function runs at a time and at most one chain
\* of processQueue calls is active; processing is true exactly while one
\* is.
C25_OneRequestAtATime ==
    /\ Cardinality(RunningRequests) <= 1
    /\ ActiveChains <= 1
    /\ heliusRequestQueue.processing <=> ActiveChains = 1

\* A request function runs while the queue holds a request that its retry
\* timer has pushed.
C25_Witness ==
    /\ pc = "queue"
    /\ RunningRequests # {}
    /\ \E i \in DOMAIN heliusRequestQueue.queue :
          LET request == heliusRequestQueue.queue[i] IN
          request.retries < promises[request.id].maxRetries

TotalInvocations ==
    SumSeq([id \in RequestIds |-> heliusRequestQueue.invocations[id]])

PausedChains ==
    {i \in DOMAIN heliusRequestQueue.chains :
        heliusRequestQueue.chains[i].at = "batchInterval"}

\* C30: currentBatchCount is between 0 and batchSizeLimit, and a step that
\* dispatches a request starts below the limit or ends the pause of
\* batchIntervalMs.
C30_BatchCountBounded ==
    /\ [](heliusRequestQueue.currentBatchCount \in 0..batchSizeLimit)
    /\ [][TotalInvocations' > TotalInvocations =>
             \/ heliusRequestQueue.currentBatchCount < batchSizeLimit
             \/ PausedChains # {}]_vars

\* The limit was reached and processQueue pauses for the batch interval.
C30_Witness ==
    /\ pc = "queue"
    /\ heliusRequestQueue.currentBatchCount = batchSizeLimit
    /\ PausedChains # {}
    /\ heliusRequestQueue.queue # <<>>

\* C24: the queue never holds a request while processing is false and no
\* call of processQueue is at an await or due, and every enqueued request
\* is eventually resolved or rejected: from some state on no promise is
\* pending.
C24_EveryRequestSettles ==
    /\ [](heliusRequestQueue.queue # <<>> =>
             heliusRequestQueue.processing /\ ActiveChains >= 1)
    /\ <>[](\A id \in RequestIds : promises[id].state # "pending")

\* A request waits in the queue while the retry timer of another is
\* pending, and a request was pushed by its retry timer.
C24_Witness ==
    /\ pc = "queue"
    /\ heliusRequestQueue.queue # <<>>
    /\ heliusRequestQueue.retryTimers # {}
    /\ \E i \in DOMAIN heliusRequestQueue.queue :
          LET request == heliusRequestQueue.queue[i] IN
          request.retries < promises[request.id].maxRetries

\* ------------------------------------------------------------------------
\* fetchWithRetry and the signature pagination loop
\* ------------------------------------------------------------------------
\* C23: fetchWithRetry makes at most maxRetries + 1 fetch attempts, whatever
\* the outcomes, and what it returns or throws is the outcome of the last
\* attempt.
C23_AtMostMaxRetriesPlusOneAttempts ==
    fetchRun.pc # "none" =>
        /\ fetchRun.attempts <= fetchRun.maxRetries + 1
        /\ fetchRun.pc \in {"returned", "thrown"} =>
              fetchRun.result = fetchRun.outcomes[Len(fetchRun.outcomes)]

\* When no attempt is answered with status 429 the bound holds.
C23_WithoutRateLimit ==
    (fetchRun.pc # "none" /\ "429" \notin Range(fetchRun.outcomes)) =>
        /\ fetchRun.attempts <= fetchRun.maxRetries + 1
        /\ fetchRun.pc \in {"returned", "thrown"} =>
              fetchRun.result = fetchRun.outcomes[Len(fetchRun.outcomes)]

====
